---- MODULE Spec2Model ----
(***************************************************************************)
(* State machine of the FileManager component (richest variant,           *)
(* src/unnamed/part_000): listing, folder tree cache, chunked upload and   *)
(* existence polling.  Strings that the code computes with (paths) are     *)
(* sequences of one-character strings; messages are opaque strings.        *)
(* An async handler is a task whose steps are split at its awaits; the     *)
(* state updates made between two awaits form one step.                    *)
(***************************************************************************)
EXTENDS Integers, Sequences, FiniteSets, TLC

\* ---------------------------------------------------------------- bounds
MaxChunks == 3          \* file sizes range up to about MaxChunks * CHUNK_SIZE
MaxOverrun == 2         \* timer ticks modelled beyond maxAttempts
MaxInFlight == 2        \* exists requests outstanding at the same time
MaxFetch == 2           \* fetchFiles invocations in progress at the same time
MaxToggle == 2          \* toggleExpand invocations in progress at the same time
MaxUploads == 1         \* handleUpload invocations followed in one run
MaxClicks == 3          \* navigation and tree clicks followed in one run
MaxIntents == 3         \* user actions followed in one run of the file operations

\* ------------------------------------------------------ program constants
CHUNK_SIZE == 50 * 1024 * 1024
USE_CHUNKED_THRESHOLD == 100 * 1024 * 1024
maxAttempts == 100

\* ------------------------------------------------------------- messages
NULL == "null"
MsgFetch == "Failed to fetch files."
MsgUpload == "Failed to upload file."
MsgNavigatePath == "Failed to navigate to path."
MsgInit == "Failed to initialize. Please log in again."
MsgSelect == "Please select a file."
MsgDownload == "Failed to download file."
MsgDelete == "Failed to delete file."
MsgFolderEmpty == "Folder name cannot be empty."
MsgCreate == "Failed to create folder."
MsgNavigateFolder == "Failed to navigate folder."
MsgNameEmpty == "Name cannot be empty."
MsgRename == "Failed to rename item."
MsgDestEmpty == "Destination folder cannot be empty."
MsgMove == "Failed to move file."
MsgDeleteFolder == "Failed to delete folder."
\* a text the gateway may send in the error field of a rejected folder delete
ServerErrorText == "Folder is not empty"
MsgPermission == "You do not have permission to access files."

\* ---------------------------------------------------------------- paths
ROOT == <<"/">>
EMPTY == <<>>
PA == <<"a">>
PC == <<"c">>
PAB == <<"a", "/", "b">>
Paths == {ROOT, PA, PC, PAB}

\* value || '/'  (the empty string is falsy)
OrRoot(p) == IF p = EMPTY THEN ROOT ELSE p

\* currentPath === '/' ? '' : currentPath
FolderArg(cp) == IF cp = ROOT THEN EMPTY ELSE cp

\* folderPath && folderPath !== '/' ? `?folder=...` : ''   (EMPTY: no filter)
Query(folderPath) == IF folderPath # EMPTY /\ folderPath # ROOT THEN folderPath ELSE EMPTY

\* ---------------------------------------------------------------- tokens
\* process.env.REACT_APP_*_GROUP_ID, and a group the application does not know
READER_GROUP_ID == "R"
UPLOADER_GROUP_ID == "U"
ADMIN_GROUP_ID == "A"
OTHER_GROUP_ID == "X"

\* A token is the string header.payload.signature.  Each part is written as one
\* character; the character of the payload stands for its base64url text.
Jwt(payload) == <<"h", ".", payload, ".", "s">>

\* what JSON.parse gives: null, or an object with or without a groups claim
JsonNull == [null |-> TRUE, hasGroups |-> FALSE, groups |-> <<>>]
NoClaims == [null |-> FALSE, hasGroups |-> FALSE, groups |-> <<>>]
Claims(groups) == [null |-> FALSE, hasGroups |-> TRUE, groups |-> groups]

\* JSON.parse(decodeURIComponent(atob(base64))) of the payload texts that decode;
\* any other text is not the base64 of a JSON document
PayloadTable ==
    "n" :> JsonNull @@
    "o" :> NoClaims @@
    "e" :> Claims(<<>>) @@
    "x" :> Claims(<<OTHER_GROUP_ID>>) @@
    "r" :> Claims(<<READER_GROUP_ID>>) @@
    "u" :> Claims(<<OTHER_GROUP_ID, UPLOADER_GROUP_ID>>) @@
    "a" :> Claims(<<ADMIN_GROUP_ID>>) @@
    "b" :> Claims(<<READER_GROUP_ID, UPLOADER_GROUP_ID>>) @@
    "w" :> Claims(<<ADMIN_GROUP_ID, UPLOADER_GROUP_ID, READER_GROUP_ID>>)

\* the access tokens acquireTokenSilent may return for the account: the tokens
\* of the table, a token whose payload does not decode, one without a dot
AccountTokens == { Jwt(c) : c \in DOMAIN PayloadTable } \cup { Jwt("!"), <<"h">> }

\* The provider renews a token: the same claims with a new signature.  The
\* epoch of a token counts its renewals.
Renewed(token) == [token EXCEPT ![5] = "t"]
Epoch(token) == IF Len(token) = 5 /\ token[5] = "t" THEN 1 ELSE 0

\* token.split('.')
RECURSIVE Split(_)
Split(s) ==
    IF \A k \in 1..Len(s) : s[k] # "."
    THEN <<s>>
    ELSE LET k == CHOOSE i \in 1..Len(s) : s[i] = "." /\ \A j \in 1..(i - 1) : s[j] # "."
         IN <<SubSeq(s, 1, k - 1)>> \o Split(SubSeq(s, k + 1, Len(s)))

\* decodeToken(token): the parsed payload, or an exception (ok is false)
Thrown == [ok |-> FALSE, value |-> JsonNull]
decodeToken(token) ==
    LET parts == Split(token) IN
    IF Len(parts) < 2
    THEN Thrown
    ELSE LET base64Url == parts[2] IN
         IF Len(base64Url) = 1 /\ base64Url[1] \in DOMAIN PayloadTable
         THEN [ok |-> TRUE, value |-> PayloadTable[base64Url[1]]]
         ELSE Thrown

\* groups.includes(id)
Includes(groups, id) == \E k \in 1..Len(groups) : groups[k] = id

\* decoded['groups'] || []
GroupsOf(decoded) == IF decoded.hasGroups THEN decoded.groups ELSE <<>>

NoRoles == [isReader |-> FALSE, isUploader |-> FALSE, isAdmin |-> FALSE]

\* the Authorization header is accepted: the bearer is a token of the provider
Authenticated(bearer) ==
    \/ bearer \in AccountTokens
    \/ \E token \in AccountTokens : Len(token) = 5 /\ bearer = Renewed(token)

\* ------------------------------------------------- gateway (environment)
\* The listing the gateway may answer for a request with the given filter.
ServerCurrentPaths(q) == IF q = EMPTY THEN {ROOT, EMPTY} ELSE {q}

ServerFolders(cp) ==
    IF cp = ROOT THEN {<<PA>>, <<PA, PC>>}
    ELSE IF cp = PA THEN {<<>>, <<PAB>>}
    ELSE {<<>>}

ServerFiles == {<<>>, <<"f1">>}

Listings(q) ==
    UNION { [currentPath : {c}, files : ServerFiles, folders : ServerFolders(OrRoot(c))]
            : c \in ServerCurrentPaths(q) }

\* ----------------------------------------------------------------- files
\* the empty file, and from the threshold on the multiples of CHUNK_SIZE and
\* the sizes one byte above them
Sizes == {0} \cup { k * CHUNK_SIZE + d : k \in 2..MaxChunks, d \in {0, 1} }
NoFile == [present |-> FALSE, size |-> 0]
File(s) == [present |-> TRUE, size |-> s]

NoProgress == [active |-> FALSE, current |-> 0, total |-> 0, committing |-> FALSE]
Progress(c, t, k) == [active |-> TRUE, current |-> c, total |-> t, committing |-> k]

VARIABLES
    files, folders, currentPath, loading, error,   \* useState, part_000:9-13
    selectedFile, uploadProgress,                  \* part_000:14-15
    treeCache, expandedPaths,                      \* part_000:24-25
    fetches,        \* fetchFiles invocations in progress
    up,             \* the handleUpload invocation in progress
    reqLog,         \* upload requests sent by the latest handleUpload
    poll,           \* the polling loop of the latest single-request upload
    toggles,        \* toggleExpand invocations in progress
    userRoles,      \* useState, part_000:27-31
    dialogs,        \* the dialog state, part_000:16-23
    handler,        \* the file or folder handler invocation in progress
    mount,          \* the account's token and the two effects run on mount
    last            \* the latest browsing step and the number of user intents (history)

vars == <<files, folders, currentPath, loading, error, selectedFile, uploadProgress,
          treeCache, expandedPaths, fetches, up, reqLog, poll, toggles,
          userRoles, dialogs, handler, mount, last>>

uiVars == <<files, folders, currentPath, loading, error, selectedFile, uploadProgress,
            treeCache, expandedPaths>>

opsVars == <<userRoles, dialogs, handler, mount>>

\* ------------------------------------------------------------ tree cache
EmptyCache == [p \in {} |-> <<>>]

\* variant: the write drops the other entries
CachePut_alone(tc, key, fs) == [p \in {key} |-> fs]

\* setTreeCache((prev) => ({ ...prev, [key]: { folders } }))
CachePut(tc, key, fs) == [p \in (DOMAIN tc) \cup {key} |-> IF p = key THEN fs ELSE tc[p]]

\* ------------------------------------------------ dialogs, handlers, mount
\* an item of the listing as a dialog holds it: its name and its fullPath, each
\* EMPTY when the entry has no such field (folder entries have none)
NoTarget == [type |-> "none", name |-> EMPTY, fullPath |-> EMPTY]
NoDialogs ==
    [showCreateFolder |-> FALSE, newFolderName |-> EMPTY,
     showRenameDialog |-> FALSE, renameTarget |-> NoTarget, renameName |-> EMPTY,
     showMoveDialog |-> FALSE, moveTarget |-> NoTarget, moveDestination |-> EMPTY]

\* pc and kind of the handler, its closure's currentPath, the token it acquired,
\* the name it was called for, the path it sends and, for a move, the sourcePath
IdleHandler == [pc |-> "idle", kind |-> "none", cp |-> ROOT, token |-> EMPTY, name |-> EMPTY,
                arg |-> EMPTY, source |-> EMPTY]

\* the token getAccessToken resolves to, the position of initializeComponent and
\* of the root preload, and whether the preload has sent its GET
Mounting(token) == [token |-> token, init |-> "token", preload |-> "token", sent |-> FALSE]

\* -------------------------------------------------------------- fetchFiles
\* folders is the folders list of the listing a toggleExpand has just received
NoStep == [op |-> "none", path |-> EMPTY, clicks |-> 0, folders |-> <<>>]
Step(op) == [last EXCEPT !.op = op, !.folders = <<>>]
Click(op, path) == [op |-> op, path |-> path, clicks |-> last.clicks + 1, folders |-> <<>>]

IdleFetch == [pc |-> "idle", token |-> EMPTY, folderPath |-> EMPTY, cp |-> EMPTY, src |-> "none"]
FreeFetch == { i \in 1..MaxFetch : fetches[i].pc = "idle" }
NextFetch == CHOOSE i \in FreeFetch : \A j \in FreeFetch : i <= j

\* The synchronous head of fetchFiles: the GET it sends.
StartFetch(token, folderPath, src) ==
    [fetches EXCEPT ![NextFetch] =
        [pc |-> "primary", token |-> token, folderPath |-> Query(folderPath), cp |-> EMPTY,
         src |-> src]]

Init ==
    /\ files = <<>>
    /\ folders = <<>>
    /\ currentPath = ROOT
    /\ loading = FALSE
    /\ error = NULL
    /\ selectedFile = NoFile
    /\ uploadProgress = NoProgress
    /\ treeCache = EmptyCache
    /\ expandedPaths = {ROOT}
    /\ fetches = [i \in 1..MaxFetch |-> IdleFetch]
    /\ up = [pc |-> "idle", size |-> 0, cp |-> ROOT, chunkIndex |-> 0, totalChunks |-> 0,
             acked |-> 0, result |-> "none", uploads |-> 0, token |-> EMPTY,
           variant |-> "part_000"]
    /\ reqLog = <<>>
    /\ poll = [armed |-> FALSE, attempts |-> 0, sent |-> 0, inflight |-> 0, cp |-> ROOT,
               refreshes |-> 0, timedOut |-> FALSE, token |-> EMPTY]
    /\ toggles = [i \in 1..MaxToggle |-> [pc |-> "idle", path |-> ROOT, next |-> {}]]
    /\ userRoles = NoRoles
    /\ dialogs = NoDialogs
    /\ handler = IdleHandler
    /\ mount = Mounting(Jwt("b"))
    /\ last = NoStep

\* fetchFiles: the primary GET is answered with a listing (part_000:64-89).
FetchPrimaryOk(i) ==
    /\ fetches[i].pc = "primary"
    /\ Authenticated(fetches[i].token)
    /\ \E r \in Listings(fetches[i].folderPath) :
        LET cp == OrRoot(r.currentPath) IN
        /\ currentPath' = cp
        /\ files' = r.files
        /\ folders' = r.folders
        /\ treeCache' = CachePut(treeCache, cp, r.folders)
        /\ IF cp # ROOT
           THEN /\ fetches' = [fetches EXCEPT ![i].pc = "root", ![i].cp = cp]
                /\ UNCHANGED <<expandedPaths, loading>>
           ELSE /\ fetches' = [fetches EXCEPT ![i] = IdleFetch]
                /\ expandedPaths' = expandedPaths \cup {cp}
                /\ loading' = FALSE
    /\ UNCHANGED <<error, selectedFile, uploadProgress, up, reqLog, poll, toggles>>
    /\ last' = Step("fetch")
    /\ UNCHANGED opsVars

\* variant: a failed listing empties the listing
FetchPrimaryFail_clears(i) ==
    /\ fetches[i].pc = "primary"
    /\ error' = MsgFetch
    /\ loading' = FALSE
    /\ files' = <<>>
    /\ folders' = <<>>
    /\ fetches' = [fetches EXCEPT ![i] = IdleFetch]
    /\ UNCHANGED <<currentPath, selectedFile, uploadProgress,
                   treeCache, expandedPaths, up, reqLog, poll, toggles>>
    /\ last' = Step("fetchFail")
    /\ UNCHANGED opsVars

\* fetchFiles: the primary GET fails (part_000:90-95).
FetchPrimaryFail(i) ==
    /\ fetches[i].pc = "primary"
    /\ error' = MsgFetch
    /\ loading' = FALSE
    /\ fetches' = [fetches EXCEPT ![i] = IdleFetch]
    /\ UNCHANGED <<files, folders, currentPath, selectedFile, uploadProgress,
                   treeCache, expandedPaths, up, reqLog, poll, toggles>>
    /\ last' = Step("fetchFail")
    /\ UNCHANGED opsVars

\* fetchFiles: the secondary root GET is answered (part_000:76-89).
FetchRootOk(i) ==
    /\ fetches[i].pc = "root"
    /\ Authenticated(fetches[i].token)
    /\ \E r \in Listings(EMPTY) :
        treeCache' = CachePut(treeCache, OrRoot(r.currentPath), r.folders)
    /\ expandedPaths' = expandedPaths \cup {fetches[i].cp}
    /\ loading' = FALSE
    /\ fetches' = [fetches EXCEPT ![i] = IdleFetch]
    /\ UNCHANGED <<files, folders, currentPath, error, selectedFile, uploadProgress,
                   up, reqLog, poll, toggles>>
    /\ last' = Step("fetch")
    /\ UNCHANGED opsVars

\* variant: a failed root refresh fails the listing
FetchRootFail_fails(i) ==
    /\ fetches[i].pc = "root"
    /\ error' = MsgFetch
    /\ loading' = FALSE
    /\ fetches' = [fetches EXCEPT ![i] = IdleFetch]
    /\ UNCHANGED <<files, folders, currentPath, selectedFile, uploadProgress,
                   treeCache, expandedPaths, up, reqLog, poll, toggles>>
    /\ last' = Step("fetch")
    /\ UNCHANGED opsVars

\* fetchFiles: the secondary root GET fails (part_000:84-89).
FetchRootFail(i) ==
    /\ fetches[i].pc = "root"
    /\ expandedPaths' = expandedPaths \cup {fetches[i].cp}
    /\ loading' = FALSE
    /\ fetches' = [fetches EXCEPT ![i] = IdleFetch]
    /\ UNCHANGED <<files, folders, currentPath, error, selectedFile, uploadProgress,
                   treeCache, up, reqLog, poll, toggles>>
    /\ last' = Step("fetch")
    /\ UNCHANGED opsVars

FetchStep ==
    \E i \in 1..MaxFetch :
        FetchPrimaryOk(i) \/ FetchPrimaryFail(i) \/ FetchRootOk(i) \/ FetchRootFail(i)

\* ---------------------------------------------------------------- upload
\* pc, the file, the currentPath of the closure and the loop variables of
\* handleChunkedUpload; acked counts the chunk POSTs that resolved, result is how
\* the invocation ended, uploads counts the invocations; variant names the file
\* of the repository whose FileManager component is running.
IdleUp == [pc |-> "idle", size |-> 0, cp |-> ROOT, chunkIndex |-> 0, totalChunks |-> 0,
           acked |-> 0, result |-> "none", uploads |-> 0, token |-> EMPTY,
           variant |-> "part_000"]
\* attempts, intervalId and the currentPath of the closure; sent and refreshes
\* record the exists requests sent and the listing refreshes the loop started,
\* timedOut that the timer was cleared by the maxAttempts branch.  Once the timer
\* is cleared attempts is read to no effect any more (clearing a cleared timer
\* does nothing), so the counters are kept at 0 from then on.
IdlePoll == [armed |-> FALSE, attempts |-> 0, sent |-> 0, inflight |-> 0, cp |-> ROOT,
             refreshes |-> 0, timedOut |-> FALSE, token |-> EMPTY]

\* variant: the threshold itself already selects the chunked strategy
UseChunked_inclusive(size) == size >= USE_CHUNKED_THRESHOLD

\* selectedFile.size > USE_CHUNKED_THRESHOLD
UseChunked(size) == size > USE_CHUNKED_THRESHOLD

\* variant: Math.floor in place of Math.ceil
TotalChunks_floor(size) == size \div CHUNK_SIZE

\* Math.ceil(file.size / CHUNK_SIZE)
TotalChunks(size) == (size + CHUNK_SIZE - 1) \div CHUNK_SIZE

\* variant: the end of a chunk is not cut at the size of the file
ChunkEnd_noMin(i, size) == i * CHUNK_SIZE + CHUNK_SIZE

\* start and end of chunk i: i * CHUNK_SIZE, Math.min(start + CHUNK_SIZE, file.size)
ChunkStart(i) == i * CHUNK_SIZE
ChunkEnd(i, size) == IF ChunkStart(i) + CHUNK_SIZE < size THEN ChunkStart(i) + CHUNK_SIZE ELSE size

ChunkReq(i, n, size, cp) ==
    [kind |-> "chunk", chunkIndex |-> i, totalChunks |-> n,
     start |-> ChunkStart(i), end |-> ChunkEnd(i, size), folder |-> FolderArg(cp)]
CommitReq(n, cp) ==
    [kind |-> "commit", chunkIndex |-> n, totalChunks |-> n,
     start |-> 0, end |-> 0, folder |-> FolderArg(cp)]
SingleReq(size, cp) ==
    [kind |-> "single", chunkIndex |-> 0, totalChunks |-> 0,
     start |-> 0, end |-> size, folder |-> FolderArg(cp)]

\* <input type="file" onChange=... disabled={loading}>; a file is picked once
\* for each upload that is followed.
SelectFile ==
    /\ ~loading
    /\ ~selectedFile.present
    /\ up.uploads < MaxUploads
    /\ ~poll.armed /\ poll.inflight = 0
    /\ \E s \in Sizes : selectedFile' = File(s)
    /\ UNCHANGED <<files, folders, currentPath, loading, error, uploadProgress,
                   treeCache, expandedPaths, fetches, up, reqLog, poll, toggles>>
    /\ last' = Step("upload")
    /\ UNCHANGED opsVars

\* handleUpload up to its first await (part_000:270-278); the Upload button is
\* disabled={loading || !selectedFile}.  One upload and its polling loop are
\* followed at a time.
HandleUpload ==
    /\ ~loading
    /\ selectedFile.present
    /\ up.pc = "idle"
    /\ up.uploads < MaxUploads
    /\ ~poll.armed /\ poll.inflight = 0
    /\ loading' = TRUE
    /\ up' = [IdleUp EXCEPT !.pc = "token", !.size = selectedFile.size, !.cp = currentPath,
                            !.uploads = up.uploads + 1]
    /\ reqLog' = <<>>
    /\ poll' = IdlePoll
    /\ UNCHANGED <<files, folders, currentPath, error, selectedFile, uploadProgress,
                   treeCache, expandedPaths, fetches, toggles>>
    /\ last' = Step("upload")
    /\ UNCHANGED opsVars

\* catch / finally of handleUpload (part_000:335-340)
UploadFailed ==
    /\ error' = MsgUpload
    /\ loading' = FALSE
    /\ up' = [up EXCEPT !.pc = "idle", !.result = "failed", !.token = EMPTY]
    /\ UNCHANGED <<files, folders, currentPath, selectedFile, uploadProgress,
                   treeCache, expandedPaths, fetches, reqLog, poll, toggles>>
    /\ last' = Step("upload")
    /\ UNCHANGED opsVars

\* getAccessToken rejects
UploadTokenFail ==
    /\ up.pc = "token"
    /\ UploadFailed

\* getAccessToken resolves: strategy selection and the first request
\* (part_000:278-304, 152-184)
UploadTokenOk ==
    /\ up.pc = "token"
    /\ IF UseChunked(up.size)
       THEN LET n == TotalChunks(up.size) IN
            /\ uploadProgress' = Progress(0, n, FALSE)
            /\ IF 0 < n
               THEN /\ up' = [up EXCEPT !.pc = "chunk", !.chunkIndex = 0, !.totalChunks = n,
                                         !.token = mount.token]
                    /\ reqLog' = Append(reqLog, ChunkReq(0, n, up.size, up.cp))
               ELSE /\ up' = [up EXCEPT !.pc = "commit", !.totalChunks = n,
                                         !.token = mount.token]
                    /\ reqLog' = Append(reqLog, CommitReq(n, up.cp))
       ELSE /\ up' = [up EXCEPT !.pc = "single", !.token = mount.token]
            /\ reqLog' = Append(reqLog, SingleReq(up.size, up.cp))
            /\ UNCHANGED uploadProgress
    /\ UNCHANGED <<files, folders, currentPath, loading, error, selectedFile,
                   treeCache, expandedPaths, fetches, poll, toggles>>
    /\ last' = Step("upload")
    /\ UNCHANGED opsVars

\* variant: the progress shows the index of the chunk, not the count
ChunkOk_zeroBased ==
    /\ up.pc = "chunk"
    /\ LET i == up.chunkIndex + 1
           n == up.totalChunks IN
       IF i < n
       THEN /\ uploadProgress' = Progress(up.chunkIndex, n, FALSE)
            /\ up' = [up EXCEPT !.chunkIndex = i, !.acked = @ + 1]
            /\ reqLog' = Append(reqLog, ChunkReq(i, n, up.size, up.cp))
       ELSE /\ uploadProgress' = Progress(n, n, TRUE)
            /\ up' = [up EXCEPT !.pc = "commit", !.chunkIndex = i, !.acked = @ + 1]
            /\ reqLog' = Append(reqLog, CommitReq(n, up.cp))
    /\ UNCHANGED <<files, folders, currentPath, loading, error, selectedFile,
                   treeCache, expandedPaths, fetches, poll, toggles>>
    /\ last' = Step("upload")
    /\ UNCHANGED opsVars

\* a chunk POST resolves (part_000:186-206)
ChunkOk ==
    /\ up.pc = "chunk"
    /\ LET i == up.chunkIndex + 1
           n == up.totalChunks IN
       IF i < n
       THEN /\ uploadProgress' = Progress(i, n, FALSE)
            /\ up' = [up EXCEPT !.chunkIndex = i, !.acked = @ + 1]
            /\ reqLog' = Append(reqLog, ChunkReq(i, n, up.size, up.cp))
       ELSE /\ uploadProgress' = Progress(n, n, TRUE)
            /\ up' = [up EXCEPT !.pc = "commit", !.chunkIndex = i, !.acked = @ + 1]
            /\ reqLog' = Append(reqLog, CommitReq(n, up.cp))
    /\ UNCHANGED <<files, folders, currentPath, loading, error, selectedFile,
                   treeCache, expandedPaths, fetches, poll, toggles>>
    /\ last' = Step("upload")
    /\ UNCHANGED opsVars

\* variant: a rejected chunk POST is swallowed and the loop goes on
ChunkFail_swallowed ==
    /\ up.pc = "chunk"
    /\ LET i == up.chunkIndex + 1
           n == up.totalChunks IN
       IF i < n
       THEN /\ up' = [up EXCEPT !.chunkIndex = i]
            /\ reqLog' = Append(reqLog, ChunkReq(i, n, up.size, up.cp))
       ELSE /\ up' = [up EXCEPT !.pc = "commit", !.chunkIndex = i]
            /\ reqLog' = Append(reqLog, CommitReq(n, up.cp))
    /\ UNCHANGED <<files, folders, currentPath, loading, error, selectedFile, uploadProgress,
                   treeCache, expandedPaths, fetches, poll, toggles>>
    /\ last' = Step("upload")
    /\ UNCHANGED opsVars

\* a chunk POST rejects: the exception leaves handleChunkedUpload
ChunkFail ==
    /\ up.pc = "chunk"
    /\ UploadFailed

\* the commit POST resolves (part_000:208-209, 284-287, 338-340)
CommitOk ==
    /\ up.pc = "commit"
    /\ FreeFetch # {}
    /\ uploadProgress' = NoProgress
    /\ selectedFile' = NoFile
    /\ error' = NULL
    /\ fetches' = StartFetch(up.token, FolderArg(up.cp), "upload")
    /\ loading' = FALSE
    /\ up' = [up EXCEPT !.pc = "idle", !.result = "ok", !.token = EMPTY]
    /\ UNCHANGED <<files, folders, currentPath, treeCache, expandedPaths, reqLog, poll, toggles>>
    /\ last' = Step("upload")
    /\ UNCHANGED opsVars

\* the commit POST rejects
CommitFail ==
    /\ up.pc = "commit"
    /\ UploadFailed

\* the multipart POST resolves: start the polling timer, whose callback closes
\* over the token of handleUpload (part_000:306-334, 338-340)
SingleOk ==
    /\ up.pc = "single"
    /\ poll' = [IdlePoll EXCEPT !.armed = TRUE, !.cp = up.cp, !.token = up.token]
    /\ selectedFile' = NoFile
    /\ error' = NULL
    /\ loading' = FALSE
    /\ up' = [up EXCEPT !.pc = "idle", !.result = "ok", !.token = EMPTY]
    /\ UNCHANGED <<files, folders, currentPath, uploadProgress, treeCache, expandedPaths,
                   fetches, reqLog, toggles>>
    /\ last' = Step("upload")
    /\ UNCHANGED opsVars

\* the multipart POST rejects
SingleFail ==
    /\ up.pc = "single"
    /\ UploadFailed

\* ------------------------------------------------------ existence polling
\* clearInterval(intervalId)
ClearInterval(p) == [p EXCEPT !.armed = FALSE, !.attempts = 0, !.sent = 0]

\* if (attempts >= maxAttempts) clearInterval(intervalId)
ClearIfExhausted(p) ==
    IF p.armed /\ p.attempts >= maxAttempts
    THEN [ClearInterval(p) EXCEPT !.timedOut = TRUE]
    ELSE p

\* the setInterval callback up to its await (part_000:315-320)
PollTick ==
    /\ poll.armed
    /\ poll.inflight < MaxInFlight
    /\ poll.attempts < maxAttempts + MaxOverrun
    /\ poll' = [poll EXCEPT !.attempts = @ + 1, !.sent = @ + 1, !.inflight = @ + 1]
    /\ UNCHANGED <<uiVars, fetches, up, reqLog, toggles>>
    /\ last' = Step("tick")
    /\ UNCHANGED opsVars

\* variant: the refresh is started but the timer is left running
ExistsTrue_noClear ==
    /\ poll.inflight > 0
    /\ FreeFetch # {}
    /\ poll' = [poll EXCEPT !.inflight = @ - 1, !.refreshes = @ + 1]
    /\ fetches' = StartFetch(poll.token, FolderArg(poll.cp), "poll")
    /\ loading' = TRUE
    /\ error' = NULL
    /\ UNCHANGED <<files, folders, currentPath, selectedFile, uploadProgress,
                   treeCache, expandedPaths, up, reqLog, toggles>>
    /\ last' = Step("existsTrue")
    /\ UNCHANGED opsVars

\* an exists GET answers { exists: true } (part_000:321-323)
ExistsTrue ==
    /\ poll.inflight > 0
    /\ FreeFetch # {}
    /\ poll' = [ClearInterval(poll) EXCEPT !.inflight = @ - 1, !.refreshes = @ + 1]
    /\ fetches' = StartFetch(poll.token, FolderArg(poll.cp), "poll")
    /\ loading' = TRUE
    /\ error' = NULL
    /\ UNCHANGED <<files, folders, currentPath, selectedFile, uploadProgress,
                   treeCache, expandedPaths, up, reqLog, toggles>>
    /\ last' = Step("existsTrue")
    /\ UNCHANGED opsVars

\* variant: the time-out also refreshes the listing
ExistsFalse_refresh ==
    /\ poll.inflight > 0
    /\ IF poll.attempts >= maxAttempts
       THEN /\ FreeFetch # {}
            /\ poll' = [ClearIfExhausted(poll) EXCEPT !.inflight = @ - 1]
            /\ fetches' = StartFetch(poll.token, FolderArg(poll.cp), "poll")
            /\ loading' = TRUE
            /\ error' = NULL
       ELSE /\ poll' = [poll EXCEPT !.inflight = @ - 1]
            /\ UNCHANGED <<fetches, loading, error>>
    /\ UNCHANGED <<files, folders, currentPath, selectedFile, uploadProgress,
                   treeCache, expandedPaths, up, reqLog, toggles>>
    /\ last' = Step("existsFalse")
    /\ UNCHANGED opsVars

\* an exists GET answers { exists: false } (part_000:324-327)
ExistsFalse ==
    /\ poll.inflight > 0
    /\ poll' = [ClearIfExhausted(poll) EXCEPT !.inflight = @ - 1]
    /\ UNCHANGED <<uiVars, fetches, up, reqLog, toggles>>
    /\ last' = Step("existsFalse")
    /\ UNCHANGED opsVars

\* variant: a rejected exists GET stops the timer
ExistsFail_stops ==
    /\ poll.inflight > 0
    /\ poll' = [ClearInterval(poll) EXCEPT !.inflight = @ - 1]
    /\ UNCHANGED <<uiVars, fetches, up, reqLog, toggles>>
    /\ last' = Step("existsFail")
    /\ UNCHANGED opsVars

\* an exists GET rejects (part_000:328-333)
ExistsFail ==
    /\ poll.inflight > 0
    /\ poll' = [ClearIfExhausted(poll) EXCEPT !.inflight = @ - 1]
    /\ UNCHANGED <<uiVars, fetches, up, reqLog, toggles>>
    /\ last' = Step("existsFail")
    /\ UNCHANGED opsVars

\* ------------------------------------------- specification of the uploads
\* The component of an uploader after its mount, when the user has opened the
\* root or the folder "a".
InitUpload ==
    /\ \/ /\ currentPath = ROOT
          /\ treeCache = CachePut(EmptyCache, ROOT, <<PA>>)
          /\ folders = <<PA>>
          /\ expandedPaths = {ROOT}
       \/ /\ currentPath = PA
          /\ treeCache = CachePut(CachePut(EmptyCache, ROOT, <<PA>>), PA, <<>>)
          /\ folders = <<>>
          /\ expandedPaths = {ROOT, PA}
    /\ files = <<>>
    /\ loading = FALSE
    /\ error = NULL
    /\ selectedFile = NoFile
    /\ uploadProgress = NoProgress
    /\ fetches = [i \in 1..MaxFetch |-> IdleFetch]
    /\ up = IdleUp
    /\ reqLog = <<>>
    /\ poll = IdlePoll
    /\ toggles = [i \in 1..MaxToggle |-> [pc |-> "idle", path |-> ROOT, next |-> {}]]
    /\ userRoles = [isReader |-> TRUE, isUploader |-> TRUE, isAdmin |-> FALSE]
    /\ dialogs = NoDialogs
    /\ handler = IdleHandler
    /\ mount = [Mounting(Jwt("b")) EXCEPT !.init = "done", !.preload = "done", !.sent = TRUE]
    /\ last = NoStep

NextUpload ==
    \/ SelectFile
    \/ HandleUpload
    \/ UploadTokenOk
    \/ UploadTokenFail
    \/ ChunkOk
    \/ ChunkFail
    \/ CommitOk
    \/ CommitFail
    \/ SingleOk
    \/ SingleFail
    \/ PollTick
    \/ ExistsTrue
    \/ ExistsFalse
    \/ ExistsFail
    \/ FetchStep

SpecUpload == InitUpload /\ [][NextUpload]_vars

\* --------------------------------- specification of the chunked upload
\* The uploader of SpecUpload with a file above the chunking threshold selected.
InitChunk ==
    /\ \/ /\ currentPath = ROOT
          /\ treeCache = CachePut(EmptyCache, ROOT, <<PA>>)
          /\ folders = <<PA>>
          /\ expandedPaths = {ROOT}
       \/ /\ currentPath = PA
          /\ treeCache = CachePut(CachePut(EmptyCache, ROOT, <<PA>>), PA, <<>>)
          /\ folders = <<>>
          /\ expandedPaths = {ROOT, PA}
    /\ files = <<>>
    /\ loading = FALSE
    /\ error = NULL
    /\ \E size \in Sizes : UseChunked(size) /\ selectedFile = File(size)
    /\ uploadProgress = NoProgress
    /\ fetches = [i \in 1..MaxFetch |-> IdleFetch]
    /\ up = IdleUp
    /\ reqLog = <<>>
    /\ poll = IdlePoll
    /\ toggles = [i \in 1..MaxToggle |-> [pc |-> "idle", path |-> ROOT, next |-> {}]]
    /\ userRoles = [isReader |-> TRUE, isUploader |-> TRUE, isAdmin |-> FALSE]
    /\ dialogs = NoDialogs
    /\ handler = IdleHandler
    /\ mount = [Mounting(Jwt("b")) EXCEPT !.init = "done", !.preload = "done", !.sent = TRUE]
    /\ last = NoStep

NextChunk ==
    \/ HandleUpload
    \/ UploadTokenOk
    \/ UploadTokenFail
    \/ ChunkOk
    \/ ChunkFail
    \/ CommitOk
    \/ CommitFail
    \/ FetchStep

SpecChunk == InitChunk /\ [][NextChunk]_vars

\* ------------------------------------------------------------ navigation
\* navigateToPath(path): tree node name, quick path (part_000:241-249)
NavigateToPath(path) ==
    /\ last.clicks < MaxClicks
    /\ FreeFetch # {}
    /\ fetches' = StartFetch(mount.token, FolderArg(path), "nav")
    /\ loading' = TRUE
    /\ error' = NULL
    /\ last' = Click("navigate", path)
    /\ UNCHANGED opsVars
    /\ UNCHANGED <<files, folders, currentPath, selectedFile, uploadProgress,
                   treeCache, expandedPaths, up, reqLog, poll, toggles>>

\* navigateToPath when getAccessToken rejects
NavigateToPathTokenFail(path) ==
    /\ last.clicks < MaxClicks
    /\ error' = MsgNavigatePath
    /\ last' = Click("navigateTokenFail", path)
    /\ UNCHANGED opsVars
    /\ UNCHANGED <<files, folders, currentPath, loading, selectedFile, uploadProgress,
                   treeCache, expandedPaths, fetches, up, reqLog, poll, toggles>>

\* ---------------------------------------------------------- folder tree
SeqToSet(sq) == { sq[k] : k \in 1..Len(sq) }

\* childrenFolders of a TreeNode: treeCache[path]?.folders || []
Children(tc, path) == IF path \in DOMAIN tc THEN SeqToSet(tc[path]) ELSE {}

\* The nodes the tree shows (TreeNode, part_000:949-982): the root, and the
\* children of every shown node that is expanded.
ShownStep(S) == S \cup UNION { Children(treeCache, n) : n \in S \cap expandedPaths }
Shown == ShownStep(ShownStep(ShownStep({ROOT})))

IdleToggle == [pc |-> "idle", path |-> ROOT, next |-> {}]
FreeToggle == { i \in 1..MaxToggle : toggles[i].pc = "idle" }
NextToggle == CHOOSE i \in FreeToggle : \A j \in FreeToggle : i <= j

RECURSIVE TreeNode(_, _)

\* variant: the children of a node are rendered whether it is expanded or not
TreeNode_everyChild(path, expanded) ==
    {path} \cup UNION { TreeNode(f, f \in expandedPaths) : f \in Children(treeCache, path) }

\* <TreeNode path expanded childrenFolders> (part_000:949-982): the paths of the
\* nodes it renders; the children are rendered when the node is expanded and
\* childrenFolders is not empty, each with expanded = expandedPaths.has(f.path)
\* and childrenFolders = treeCache[f.path]?.folders || [].
TreeNode(path, expanded) ==
    {path} \cup
        IF expanded /\ Children(treeCache, path) # {}
        THEN UNION { TreeNode(f, f \in expandedPaths) : f \in Children(treeCache, path) }
        ELSE {}

\* the tree of the side bar (part_000:582-596)
Tree == TreeNode(ROOT, ROOT \in expandedPaths)

\* variant: the cache is never consulted
CacheHit_never(tc, path) == FALSE

\* !treeCache[path] is false: the path is a key of the cache
CacheHit(tc, path) == path \in DOMAIN tc

\* toggleExpand(path) of an expanded node (part_000:215-217, 238)
ToggleCollapse(path) ==
    /\ last.clicks < MaxClicks
    /\ path \in Shown
    /\ path \in expandedPaths
    /\ expandedPaths' = expandedPaths \ {path}
    /\ last' = Click("toggle", path)
    /\ UNCHANGED opsVars
    /\ UNCHANGED <<files, folders, currentPath, loading, error, selectedFile, uploadProgress,
                   treeCache, fetches, up, reqLog, poll, toggles>>

\* toggleExpand(path) of a collapsed node: with the path cached the set is
\* written at once, else the handler awaits getAccessToken (part_000:218-222, 238)
ToggleExpand(path) ==
    /\ last.clicks < MaxClicks
    /\ path \in Shown
    /\ path \notin expandedPaths
    /\ IF CacheHit(treeCache, path)
       THEN /\ expandedPaths' = expandedPaths \cup {path}
            /\ UNCHANGED toggles
       ELSE /\ FreeToggle # {}
            /\ toggles' = [toggles EXCEPT ![NextToggle] =
                    [pc |-> "token", path |-> path, next |-> expandedPaths \cup {path}]]
            /\ UNCHANGED expandedPaths
    /\ last' = Click("toggle", path)
    /\ UNCHANGED opsVars
    /\ UNCHANGED <<files, folders, currentPath, loading, error, selectedFile, uploadProgress,
                   treeCache, fetches, up, reqLog, poll>>

\* getAccessToken resolves: the GET for the node is sent (part_000:222-227)
ToggleTokenOk(i) ==
    /\ toggles[i].pc = "token"
    /\ toggles' = [toggles EXCEPT ![i].pc = "get"]
    /\ last' = Step("toggleGet")
    /\ UNCHANGED opsVars
    /\ UNCHANGED <<uiVars, fetches, up, reqLog, poll>>

\* getAccessToken rejects (part_000:233-238)
ToggleTokenFail(i) ==
    /\ toggles[i].pc = "token"
    /\ expandedPaths' = toggles[i].next
    /\ toggles' = [toggles EXCEPT ![i] = IdleToggle]
    /\ last' = Step("toggleTokenFail")
    /\ UNCHANGED opsVars
    /\ UNCHANGED <<files, folders, currentPath, loading, error, selectedFile, uploadProgress,
                   treeCache, fetches, up, reqLog, poll>>

\* variant: the folders received are appended to the entry the cache has
ToggleGetOk_merge(i) ==
    /\ toggles[i].pc = "get"
    /\ \E r \in Listings(Query(FolderArg(toggles[i].path))) :
        LET key == OrRoot(r.currentPath)
            had == IF key \in DOMAIN treeCache THEN treeCache[key] ELSE <<>>
            more == SelectSeq(r.folders, LAMBDA f : f \notin SeqToSet(had))
        IN /\ treeCache' = CachePut(treeCache, key, had \o more)
           /\ last' = [Step("toggleOk") EXCEPT !.folders = r.folders]
    /\ expandedPaths' = toggles[i].next
    /\ toggles' = [toggles EXCEPT ![i] = IdleToggle]
    /\ UNCHANGED opsVars
    /\ UNCHANGED <<files, folders, currentPath, loading, error, selectedFile, uploadProgress,
                   fetches, up, reqLog, poll>>

\* the GET of toggleExpand is answered (part_000:228-232, 238)
ToggleGetOk(i) ==
    /\ toggles[i].pc = "get"
    /\ \E r \in Listings(Query(FolderArg(toggles[i].path))) :
        /\ treeCache' = CachePut(treeCache, OrRoot(r.currentPath), r.folders)
        /\ last' = [Step("toggleOk") EXCEPT !.folders = r.folders]
    /\ expandedPaths' = toggles[i].next
    /\ toggles' = [toggles EXCEPT ![i] = IdleToggle]
    /\ UNCHANGED opsVars
    /\ UNCHANGED <<files, folders, currentPath, loading, error, selectedFile, uploadProgress,
                   fetches, up, reqLog, poll>>

\* variant: a failed GET is cached as a folder without children
ToggleGetFail_caches(i) ==
    /\ toggles[i].pc = "get"
    /\ treeCache' = CachePut(treeCache, toggles[i].path, <<>>)
    /\ expandedPaths' = toggles[i].next
    /\ toggles' = [toggles EXCEPT ![i] = IdleToggle]
    /\ last' = Step("toggleFail")
    /\ UNCHANGED opsVars
    /\ UNCHANGED <<files, folders, currentPath, loading, error, selectedFile, uploadProgress,
                   fetches, up, reqLog, poll>>

\* the GET of toggleExpand fails (part_000:233-238)
ToggleGetFail(i) ==
    /\ toggles[i].pc = "get"
    /\ expandedPaths' = toggles[i].next
    /\ toggles' = [toggles EXCEPT ![i] = IdleToggle]
    /\ last' = Step("toggleFail")
    /\ UNCHANGED opsVars
    /\ UNCHANGED <<files, folders, currentPath, loading, error, selectedFile, uploadProgress,
                   treeCache, fetches, up, reqLog, poll>>

ToggleStep ==
    \E i \in 1..MaxToggle :
        ToggleTokenOk(i) \/ ToggleTokenFail(i) \/ ToggleGetOk(i) \/ ToggleGetFail(i)

\* ------------------------------------------ specification of the browsing
NextBrowse ==
    \/ \E path \in Paths : NavigateToPath(path)
    \/ \E path \in Paths : NavigateToPathTokenFail(path)
    \/ \E path \in Paths : ToggleCollapse(path)
    \/ \E path \in Paths : ToggleExpand(path)
    \/ ToggleStep
    \/ FetchStep

SpecBrowse == Init /\ [][NextBrowse]_vars

\* ------------------------------------------- specification of the toggles
\* The component of a reader after its mount, the root listed with the folders
\* a and c; the user only toggles the nodes of the tree.
InitExpand ==
    /\ files = <<"f1">>
    /\ folders = <<PA, PC>>
    /\ currentPath = ROOT
    /\ loading = FALSE
    /\ error = NULL
    /\ selectedFile = NoFile
    /\ uploadProgress = NoProgress
    /\ treeCache = CachePut(EmptyCache, ROOT, <<PA, PC>>)
    /\ expandedPaths = {ROOT}
    /\ fetches = [i \in 1..MaxFetch |-> IdleFetch]
    /\ up = IdleUp
    /\ reqLog = <<>>
    /\ poll = IdlePoll
    /\ toggles = [i \in 1..MaxToggle |-> IdleToggle]
    /\ userRoles = [isReader |-> TRUE, isUploader |-> FALSE, isAdmin |-> FALSE]
    /\ dialogs = NoDialogs
    /\ handler = IdleHandler
    /\ mount = [Mounting(Jwt("b")) EXCEPT !.init = "done", !.preload = "done", !.sent = TRUE]
    /\ last = NoStep

NextExpand ==
    \/ \E path \in Paths : ToggleCollapse(path)
    \/ \E path \in Paths : ToggleExpand(path)
    \/ ToggleStep

SpecExpand == InitExpand /\ [][NextExpand]_vars

\* ------------------------------------------ specification of the listing
\* The component after construction; the user only navigates.
NextList ==
    \/ \E path \in Paths : NavigateToPath(path)
    \/ FetchStep

SpecList == Init /\ [][NextList]_vars

\* ------------------------------------------------------- file operations
\* s.trim()
RECURSIVE TrimStart(_)
TrimStart(s) == IF s # <<>> /\ Head(s) = " " THEN TrimStart(Tail(s)) ELSE s
RECURSIVE TrimEnd(_)
TrimEnd(s) == IF s # <<>> /\ s[Len(s)] = " " THEN TrimEnd(SubSeq(s, 1, Len(s) - 1)) ELSE s

\* variant: the text is tested as it was typed
Trim_none(s) == s

Trim(s) == TrimEnd(TrimStart(s))

\* the texts typed into the name fields, and into the destination field
NameInputs == { <<" ">>, <<"d">> }
DestInputs == { <<" ">>, ROOT, <<"/", "a", "/">> }

\* an entry of the files list as the string of its name
FileArg(f) == <<f>>

\* the message of the catch block of each handler
CatchMsg(kind) ==
    CASE kind = "download" -> MsgDownload
      [] kind = "delete" -> MsgDelete
      [] kind = "createFolder" -> MsgCreate
      [] kind = "rename" -> MsgRename
      [] kind = "move" -> MsgMove
      [] kind = "deleteFolder" -> MsgDeleteFolder

\* variant: the folder name is always appended to the current path
CreateFolderPath_always(cp, name) == cp \o <<"/">> \o name

\* currentPath === '/' ? newFolderName : currentPath + '/' + newFolderName
CreateFolderPath(cp, name) == IF cp = ROOT THEN name ELSE cp \o <<"/">> \o name

\* p.replace(/^\/+/, '') and p.replace(/\/+$/, '')
RECURSIVE StripLeading(_)
StripLeading(p) == IF p # <<>> /\ Head(p) = "/" THEN StripLeading(Tail(p)) ELSE p
RECURSIVE StripTrailing(_)
StripTrailing(p) ==
    IF p # <<>> /\ p[Len(p)] = "/" THEN StripTrailing(SubSeq(p, 1, Len(p) - 1)) ELSE p

\* variant: only the trailing slashes are removed
normalizePathForClient_trailingOnly(p) == IF p = EMPTY THEN EMPTY ELSE StripTrailing(p)

\* normalizePathForClient(p)
normalizePathForClient(p) == IF p = EMPTY THEN EMPTY ELSE StripTrailing(StripLeading(p))

\* normalizePathForClient(moveDestination) + '/' + moveTarget.name
MoveDestPath(dest, name) == normalizePathForClient(dest) \o <<"/">> \o name

\* filename.includes('/') ? filename : (currentPath === '/' ? filename : ...)
DownloadPath(cp, filename) ==
    IF "/" \in SeqToSet(filename) \/ cp = ROOT THEN filename ELSE cp \o <<"/">> \o filename

\* target.fullPath || target.name
SourcePath(target) == IF target.fullPath # EMPTY THEN target.fullPath ELSE target.name

\* the last segment of a path: path.split('/').pop()
RECURSIVE BaseName(_)
BaseName(p) ==
    IF "/" \in SeqToSet(p) THEN BaseName(Tail(p)) ELSE p

\* moveTarget.name || moveTarget.fullPath.split('/').pop()
TargetName(target) == IF target.name # EMPTY THEN target.name ELSE BaseName(target.fullPath)

\* A handler sets loading and awaits getAccessToken.  One handler invocation is
\* followed at a time.
StartHandler(kind, name, arg) ==
    /\ handler.pc = "idle"
    /\ last.clicks < MaxIntents
    /\ loading' = TRUE
    /\ handler' = [pc |-> "token", kind |-> kind, cp |-> currentPath, token |-> EMPTY,
                   name |-> name, arg |-> arg,
                   source |-> IF kind = "move" THEN SourcePath(dialogs.moveTarget) ELSE EMPTY]
    /\ last' = Click(kind, name)
    /\ UNCHANGED <<files, folders, currentPath, error, selectedFile, uploadProgress,
                   treeCache, expandedPaths, fetches, up, reqLog, poll, toggles,
                   userRoles, dialogs, mount>>

\* the path the request of the handler carries
RequestPath(h) ==
    CASE h.kind = "createFolder" -> CreateFolderPath(h.cp, h.name)
      [] h.kind = "move" -> MoveDestPath(h.arg, h.name)
      [] OTHER -> h.arg

\* getAccessToken resolves: the request of the handler is sent
HandlerTokenOk ==
    /\ handler.pc = "token"
    /\ handler' = [handler EXCEPT !.pc = "request", !.token = mount.token,
                                  !.arg = RequestPath(handler)]
    /\ last' = Step("request")
    /\ UNCHANGED <<uiVars, fetches, up, reqLog, poll, toggles, userRoles, dialogs, mount>>

\* variant: a failed handler also withdraws the roles
HandlerFailed_dropsRoles(msg) ==
    /\ error' = msg
    /\ loading' = FALSE
    /\ handler' = IdleHandler
    /\ userRoles' = NoRoles
    /\ last' = Step(IF handler.pc = "token" THEN "tokenFailed" ELSE "requestFailed")
    /\ UNCHANGED <<files, folders, currentPath, selectedFile, uploadProgress,
                   treeCache, expandedPaths, fetches, up, reqLog, poll, toggles,
                   dialogs, mount>>

\* variant: the handler has no finally
HandlerFailed_keepsLoading(msg) ==
    /\ error' = msg
    /\ handler' = IdleHandler
    /\ last' = Step(IF handler.pc = "token" THEN "tokenFailed" ELSE "requestFailed")
    /\ UNCHANGED <<files, folders, currentPath, loading, selectedFile, uploadProgress,
                   treeCache, expandedPaths, fetches, up, reqLog, poll, toggles,
                   userRoles, dialogs, mount>>

\* catch and finally of a handler: the message, loading false
HandlerFailed(msg) ==
    /\ error' = msg
    /\ loading' = FALSE
    /\ handler' = IdleHandler
    /\ last' = Step(IF handler.pc = "token" THEN "tokenFailed" ELSE "requestFailed")
    /\ UNCHANGED <<files, folders, currentPath, selectedFile, uploadProgress,
                   treeCache, expandedPaths, fetches, up, reqLog, poll, toggles,
                   userRoles, dialogs, mount>>

\* getAccessToken rejects
HandlerTokenFail ==
    /\ handler.pc = "token"
    /\ HandlerFailed(CatchMsg(handler.kind))

\* variant: every handler shows the error field of the response
HandlerRequestFail_serverText ==
    /\ handler.pc = "request"
    /\ \/ HandlerFailed(CatchMsg(handler.kind))
       \/ HandlerFailed(ServerErrorText)

\* the request is rejected, or the download token is missing in the response
\* (part_000:358-361); handleDeleteFolder shows the error field of the response
\* when there is one (part_000:540-543)
HandlerRequestFail ==
    /\ handler.pc = "request"
    /\ \/ HandlerFailed(CatchMsg(handler.kind))
       \/ /\ handler.kind = "deleteFolder"
          /\ HandlerFailed(ServerErrorText)

\* fetchFiles(token, currentPath === '/' ? '' : currentPath), not awaited, then
\* setError(null) and, in the finally, setLoading(false)
RefreshAndFinish(src) ==
    /\ FreeFetch # {}
    /\ fetches' = StartFetch(handler.token, FolderArg(handler.cp), src)
    /\ error' = NULL
    /\ loading' = FALSE
    /\ handler' = IdleHandler
    /\ last' = Step("handlerOk")

\* what the handlers leave alone when they start or end
HandlerFrame ==
    UNCHANGED <<files, folders, currentPath, selectedFile, uploadProgress,
                treeCache, expandedPaths, up, reqLog, poll, toggles, userRoles, mount>>

\* a user action that only edits the state of a dialog or sets a message
UserEdit(op, path) ==
    /\ last.clicks < MaxIntents
    /\ last' = Click(op, path)
    /\ UNCHANGED <<files, folders, currentPath, loading, selectedFile, uploadProgress,
                   treeCache, expandedPaths, fetches, up, reqLog, poll, toggles,
                   userRoles, handler, mount>>

NoDialogOpen ==
    ~dialogs.showCreateFolder /\ ~dialogs.showRenameDialog /\ ~dialogs.showMoveDialog

Target(type, name, fullPath) == [type |-> type, name |-> name, fullPath |-> fullPath]

\* the fullPath of the file entry a listing of the folder cp gives for a name
EntryPath(cp, name) == IF cp = ROOT THEN name ELSE cp \o <<"/">> \o name

FileTargets ==
    { Target("file", FileArg(files[k]), EntryPath(currentPath, FileArg(files[k])))
        : k \in 1..Len(files) }
FolderTargets == { Target("folder", BaseName(folders[k]), EMPTY) : k \in 1..Len(folders) }

\* every entry the files list and the folders list can show: the entries of the
\* listings and the folders handleCreateFolder inserts
FileNames == { FileArg(f) : f \in UNION { SeqToSet(fs) : fs \in ServerFiles } }
FileItems == { EntryPath(cp, name) : cp \in Paths, name \in FileNames }
FolderItems ==
    Paths \cup { CreateFolderPath(cp, name) : cp \in Paths, name \in NameInputs }
AllTargets ==
    { Target("file", name, EntryPath(cp, name)) : cp \in Paths, name \in FileNames }
        \cup { Target("folder", BaseName(d), EMPTY) : d \in FolderItems }
\* the item is in the list the button belongs to
Listed(kind, name) ==
    IF kind = "deleteFolder" THEN name \in SeqToSet(folders)
    ELSE \E k \in 1..Len(files) : name = EntryPath(currentPath, FileArg(files[k]))

\* ---- handleUpload with no file selected (part_000:271-274)
UploadNoFile ==
    /\ ~selectedFile.present
    /\ error' = MsgSelect
    /\ UNCHANGED dialogs
    /\ UserEdit("uploadInvalid", EMPTY)

\* ---- create folder
\* the + New Folder button; one dialog is followed at a time
OpenCreateFolder ==
    /\ userRoles.isUploader /\ ~loading /\ NoDialogOpen
    /\ dialogs' = [dialogs EXCEPT !.showCreateFolder = TRUE]
    /\ UNCHANGED error
    /\ UserEdit("openCreate", EMPTY)

TypeFolderName(name) ==
    /\ dialogs.showCreateFolder /\ dialogs.newFolderName # name
    /\ dialogs' = [dialogs EXCEPT !.newFolderName = name]
    /\ UNCHANGED error
    /\ UserEdit("typeName", name)

\* handleCreateFolder with a name that is empty after trim (the Enter key calls
\* the handler whatever the Create button's state), part_000:402-405
CreateFolderInvalid ==
    /\ dialogs.showCreateFolder
    /\ Trim(dialogs.newFolderName) = EMPTY
    /\ error' = MsgFolderEmpty
    /\ UNCHANGED dialogs
    /\ UserEdit("createInvalid", dialogs.newFolderName)

\* handleCreateFolder up to its first await (part_000:407-409)
HandleCreateFolder ==
    /\ dialogs.showCreateFolder
    /\ Trim(dialogs.newFolderName) # EMPTY
    /\ StartHandler("createFolder", dialogs.newFolderName, EMPTY)

\* variant: the new folder is appended without looking for its path
CreateFolderOk_appends ==
    /\ handler.pc = "request" /\ handler.kind = "createFolder"
    /\ Authenticated(handler.token)
    /\ FreeFetch # {}
    /\ LET folderPath == handler.arg
           key == handler.cp
           existing == IF key \in DOMAIN treeCache THEN treeCache[key] ELSE <<>>
       IN /\ folders' = Append(folders, folderPath)
          /\ treeCache' = CachePut(treeCache, key, Append(existing, folderPath))
          /\ expandedPaths' = expandedPaths \cup {key}
    /\ dialogs' = [dialogs EXCEPT !.newFolderName = EMPTY, !.showCreateFolder = FALSE]
    /\ error' = NULL
    /\ fetches' = StartFetch(handler.cp, EMPTY, "createFolder")
    /\ loading' = TRUE
    /\ handler' = IdleHandler
    /\ last' = Step("handlerOk")
    /\ UNCHANGED <<files, currentPath, selectedFile, uploadProgress, up, reqLog, poll,
                   toggles, userRoles, mount>>

\* the POST of handleCreateFolder resolves (part_000:420-445): the folder is put
\* into the list and the tree cache, the dialog is closed and fetchFiles is
\* called with currentPath as its only argument.  What follows the awaited
\* fetchFiles, setLoading(false), runs in the task in which fetchFiles has set
\* loading to false itself.
CreateFolderOk ==
    /\ handler.pc = "request" /\ handler.kind = "createFolder"
    /\ Authenticated(handler.token)
    /\ FreeFetch # {}
    /\ LET folderPath == handler.arg
           key == handler.cp
           existing == IF key \in DOMAIN treeCache THEN treeCache[key] ELSE <<>>
       IN /\ folders' = IF folderPath \in SeqToSet(folders)
                         THEN folders ELSE Append(folders, folderPath)
          /\ treeCache' = CachePut(treeCache, key,
                                IF folderPath \in SeqToSet(existing)
                                THEN existing ELSE Append(existing, folderPath))
          /\ expandedPaths' = expandedPaths \cup {key}
    /\ dialogs' = [dialogs EXCEPT !.newFolderName = EMPTY, !.showCreateFolder = FALSE]
    /\ error' = NULL
    /\ fetches' = StartFetch(handler.cp, EMPTY, "createFolder")
    /\ loading' = TRUE
    /\ handler' = IdleHandler
    /\ last' = Step("handlerOk")
    /\ UNCHANGED <<files, currentPath, selectedFile, uploadProgress, up, reqLog, poll,
                   toggles, userRoles, mount>>

\* ---- rename
OpenRename(target) ==
    /\ target \in FileTargets \cup FolderTargets
    /\ userRoles.isUploader /\ ~loading /\ NoDialogOpen
    /\ dialogs' = [dialogs EXCEPT !.renameTarget = target, !.renameName = target.name,
                                  !.showRenameDialog = TRUE]
    /\ UNCHANGED error
    /\ UserEdit("openRename", target.name)

TypeRenameName(name) ==
    /\ dialogs.showRenameDialog /\ dialogs.renameName # name
    /\ dialogs' = [dialogs EXCEPT !.renameName = name]
    /\ UNCHANGED error
    /\ UserEdit("typeName", name)

\* handleRenameItem with a name that is empty after trim (Enter key),
\* part_000:465-468
RenameInvalid ==
    /\ dialogs.showRenameDialog
    /\ Trim(dialogs.renameName) = EMPTY
    /\ error' = MsgNameEmpty
    /\ UNCHANGED dialogs
    /\ UserEdit("renameInvalid", dialogs.renameName)

\* handleRenameItem up to its first await: oldPath and newName
HandleRenameItem ==
    /\ dialogs.showRenameDialog
    /\ Trim(dialogs.renameName) # EMPTY
    /\ StartHandler("rename", SourcePath(dialogs.renameTarget), dialogs.renameName)

\* the POST of handleRenameItem resolves (part_000:482-486, 490-492)
RenameOk ==
    /\ handler.pc = "request" /\ handler.kind = "rename"
    /\ Authenticated(handler.token)
    /\ dialogs' = [dialogs EXCEPT !.showRenameDialog = FALSE, !.renameTarget = NoTarget,
                                  !.renameName = EMPTY]
    /\ RefreshAndFinish("rename")
    /\ HandlerFrame

\* ---- move
OpenMove(target) ==
    /\ target \in FileTargets
    /\ userRoles.isUploader /\ ~loading /\ NoDialogOpen
    /\ dialogs' = [dialogs EXCEPT !.moveTarget = target,
                                  !.moveDestination = FolderArg(currentPath),
                                  !.showMoveDialog = TRUE]
    /\ UNCHANGED error
    /\ UserEdit("openMove", target.name)

TypeMoveDestination(dest) ==
    /\ dialogs.showMoveDialog /\ dialogs.moveDestination # dest
    /\ dialogs' = [dialogs EXCEPT !.moveDestination = dest]
    /\ UNCHANGED error
    /\ UserEdit("typeDest", dest)

\* handleMoveFile with a destination that is empty after trim (part_000:496-499)
MoveInvalid ==
    /\ dialogs.showMoveDialog
    /\ Trim(dialogs.moveDestination) = EMPTY
    /\ error' = MsgDestEmpty
    /\ UNCHANGED dialogs
    /\ UserEdit("moveInvalid", dialogs.moveDestination)

\* handleMoveFile up to its first await; the Move button is
\* disabled={loading || !moveDestination.trim()}
HandleMoveFile ==
    /\ dialogs.showMoveDialog
    /\ ~loading
    /\ Trim(dialogs.moveDestination) # EMPTY
    /\ StartHandler("move", TargetName(dialogs.moveTarget), dialogs.moveDestination)

\* the POST of handleMoveFile resolves (part_000:510-514, 518-520)
MoveOk ==
    /\ handler.pc = "request" /\ handler.kind = "move"
    /\ Authenticated(handler.token)
    /\ dialogs' = [dialogs EXCEPT !.showMoveDialog = FALSE, !.moveTarget = NoTarget,
                                  !.moveDestination = EMPTY]
    /\ RefreshAndFinish("move")
    /\ HandlerFrame

\* ---- delete file, delete folder
\* variant: the request is prepared whatever window.confirm answers
ConfirmDeclined_sends(kind, name) ==
    /\ Listed(kind, name)
    /\ userRoles.isUploader /\ ~loading
    /\ handler.pc = "idle"
    /\ last.clicks < MaxIntents
    /\ loading' = TRUE
    /\ handler' = [pc |-> "token", kind |-> kind, cp |-> currentPath, token |-> EMPTY,
                   name |-> name, arg |-> name, source |-> EMPTY]
    /\ last' = Click("declined", name)
    /\ UNCHANGED <<files, folders, currentPath, error, selectedFile, uploadProgress,
                   treeCache, expandedPaths, fetches, up, reqLog, poll, toggles,
                   userRoles, dialogs, mount>>

\* window.confirm answers false: the handler returns (part_000:383, 529)
ConfirmDeclined(kind, name) ==
    /\ Listed(kind, name)
    /\ userRoles.isUploader /\ ~loading
    /\ UNCHANGED <<error, dialogs>>
    /\ UserEdit("declined", name)

\* window.confirm answers true: handleDelete, handleDeleteFolder up to the first
\* await
ConfirmAccepted(kind, name) ==
    /\ Listed(kind, name)
    /\ userRoles.isUploader /\ ~loading
    /\ StartHandler(kind, name, name)

\* the DELETE of handleDelete or handleDeleteFolder resolves (part_000:391-392,
\* 396-398, 538-539, 544-546)
DeleteOk ==
    /\ handler.pc = "request" /\ handler.kind \in {"delete", "deleteFolder"}
    /\ Authenticated(handler.token)
    /\ UNCHANGED dialogs
    /\ RefreshAndFinish(handler.kind)
    /\ HandlerFrame

\* ---- download
HandleDownload(filename) ==
    /\ Listed("download", filename)
    /\ ~loading
    /\ StartHandler("download", filename, DownloadPath(currentPath, filename))

\* the POST for the download token resolves with a token: the link is clicked
\* (part_000:358-373, 377-379)
DownloadOk ==
    /\ handler.pc = "request" /\ handler.kind = "download"
    /\ Authenticated(handler.token)
    /\ error' = NULL
    /\ loading' = FALSE
    /\ handler' = IdleHandler
    /\ last' = Step("handlerOk")
    /\ UNCHANGED <<fetches, dialogs>>
    /\ HandlerFrame

\* ---- handleNavigateFolder(folderPath): a folder of the list is clicked
HandleNavigateFolder(folderPath) ==
    /\ last.clicks < MaxIntents
    /\ folderPath \in SeqToSet(folders)
    /\ FreeFetch # {}
    /\ fetches' = StartFetch(mount.token, folderPath, "folder")
    /\ loading' = TRUE
    /\ error' = NULL
    /\ last' = Click("navigateFolder", folderPath)
    /\ UNCHANGED <<files, folders, currentPath, selectedFile, uploadProgress,
                   treeCache, expandedPaths, up, reqLog, poll, toggles, opsVars>>

\* handleNavigateFolder when getAccessToken rejects
HandleNavigateFolderTokenFail(folderPath) ==
    /\ folderPath \in SeqToSet(folders)
    /\ error' = MsgNavigateFolder
    /\ UNCHANGED dialogs
    /\ UserEdit("navigateFolderTokenFail", folderPath)

\* The user goes into a folder while no handler and no listing request is
\* outstanding.  The file operations are followed with this user; the folder
\* creation is followed with a user who goes into folders at any time.
HandleNavigateFolderAtRest(folderPath) ==
    /\ handler.pc = "idle"
    /\ \A i \in 1..MaxFetch : fetches[i].pc = "idle"
    /\ HandleNavigateFolder(folderPath)

\* ----------------------------------------------------------------- mount
\* variant: an administrator is a reader and an uploader as well
RolesOf_adminImplies(groups) ==
    [isReader |-> Includes(groups, READER_GROUP_ID) \/ Includes(groups, ADMIN_GROUP_ID),
     isUploader |-> Includes(groups, UPLOADER_GROUP_ID) \/ Includes(groups, ADMIN_GROUP_ID),
     isAdmin |-> Includes(groups, ADMIN_GROUP_ID)]

\* isReader, isUploader, isAdmin of initializeComponent (part_000:124-126)
RolesOf(groups) ==
    [isReader |-> Includes(groups, READER_GROUP_ID),
     isUploader |-> Includes(groups, UPLOADER_GROUP_ID),
     isAdmin |-> Includes(groups, ADMIN_GROUP_ID)]

\* isReader || isUploader || isAdmin
MayList(roles) == roles.isReader \/ roles.isUploader \/ roles.isAdmin

\* catch of initializeComponent (part_000:142-145)
InitFailed ==
    /\ error' = MsgInit
    /\ mount' = [mount EXCEPT !.init = "failed"]
    /\ UNCHANGED <<files, folders, currentPath, loading, selectedFile, uploadProgress,
                   treeCache, expandedPaths, fetches, up, reqLog, poll, toggles,
                   userRoles, dialogs, handler>>
    /\ last' = Step("initFailed")

\* initializeComponent when getAccessToken rejects
InitTokenFail ==
    /\ mount.init = "token"
    /\ InitFailed

\* variant: a token that does not decode counts as a token without groups
InitTokenOk_zeroRoles ==
    /\ mount.init = "token"
    /\ LET decoded == decodeToken(mount.token)
           groups == IF decoded.ok /\ ~decoded.value.null
                     THEN GroupsOf(decoded.value) ELSE <<>>
           roles == RolesOf(groups)
       IN /\ userRoles' = roles
          /\ IF MayList(roles)
             THEN /\ FreeFetch # {}
                  /\ fetches' = StartFetch(mount.token, EMPTY, "init")
                  /\ loading' = TRUE
                  /\ error' = NULL
                  /\ mount' = [mount EXCEPT !.init = "done"]
             ELSE /\ error' = MsgPermission
                  /\ mount' = [mount EXCEPT !.init = "denied"]
                  /\ UNCHANGED <<fetches, loading>>
    /\ UNCHANGED <<files, folders, currentPath, selectedFile, uploadProgress,
                   treeCache, expandedPaths, up, reqLog, poll, toggles, dialogs, handler>>
    /\ last' = Step("init")

\* initializeComponent when getAccessToken resolves (part_000:115-145): the
\* token is decoded, the roles are set and the root listing is requested or the
\* permission message is set; an exception of decodeToken, or of reading the
\* groups of a null payload, ends in the catch
InitTokenOk ==
    /\ mount.init = "token"
    /\ LET decoded == decodeToken(mount.token) IN
       IF ~decoded.ok \/ decoded.value.null
       THEN InitFailed
       ELSE LET roles == RolesOf(GroupsOf(decoded.value)) IN
            /\ userRoles' = roles
            /\ IF MayList(roles)
               THEN /\ FreeFetch # {}
                    /\ fetches' = StartFetch(mount.token, EMPTY, "init")
                    /\ loading' = TRUE
                    /\ error' = NULL
                    /\ mount' = [mount EXCEPT !.init = "done"]
               ELSE /\ error' = MsgPermission
                    /\ mount' = [mount EXCEPT !.init = "denied"]
                    /\ UNCHANGED <<fetches, loading>>
            /\ UNCHANGED <<files, folders, currentPath, selectedFile, uploadProgress,
                           treeCache, expandedPaths, up, reqLog, poll, toggles,
                           dialogs, handler>>
            /\ last' = Step("init")

\* the root preload (part_000:252-268): getAccessToken resolves, the GET is sent
PreloadTokenOk ==
    /\ mount.preload = "token"
    /\ mount' = [mount EXCEPT !.preload = "get", !.sent = TRUE]
    /\ UNCHANGED <<uiVars, fetches, up, reqLog, poll, toggles, userRoles, dialogs, handler>>
    /\ last' = Step("preload")

\* the root preload when getAccessToken rejects
PreloadTokenFail ==
    /\ mount.preload = "token"
    /\ mount' = [mount EXCEPT !.preload = "failed"]
    /\ UNCHANGED <<uiVars, fetches, up, reqLog, poll, toggles, userRoles, dialogs, handler>>
    /\ last' = Step("preload")

\* the GET of the root preload is answered
PreloadGetOk ==
    /\ mount.preload = "get"
    /\ Authenticated(mount.token)
    /\ \E r \in Listings(EMPTY) :
        treeCache' = CachePut(treeCache, OrRoot(r.currentPath), r.folders)
    /\ mount' = [mount EXCEPT !.preload = "done"]
    /\ UNCHANGED <<files, folders, currentPath, loading, error, selectedFile, uploadProgress,
                   expandedPaths, fetches, up, reqLog, poll, toggles,
                   userRoles, dialogs, handler>>
    /\ last' = Step("preload")

\* the GET of the root preload fails
PreloadGetFail ==
    /\ mount.preload = "get"
    /\ mount' = [mount EXCEPT !.preload = "failed"]
    /\ UNCHANGED <<uiVars, fetches, up, reqLog, poll, toggles, userRoles, dialogs, handler>>
    /\ last' = Step("preload")

MountStep ==
    \/ InitTokenOk
    \/ InitTokenFail
    \/ PreloadTokenOk
    \/ PreloadTokenFail
    \/ PreloadGetOk
    \/ PreloadGetFail

\* ---------------------------------------------- specification of the mount
\* The component after construction, for each token the account may have.
InitMount ==
    /\ files = <<>>
    /\ folders = <<>>
    /\ currentPath = ROOT
    /\ loading = FALSE
    /\ error = NULL
    /\ selectedFile = NoFile
    /\ uploadProgress = NoProgress
    /\ treeCache = EmptyCache
    /\ expandedPaths = {ROOT}
    /\ fetches = [i \in 1..MaxFetch |-> IdleFetch]
    /\ up = IdleUp
    /\ reqLog = <<>>
    /\ poll = IdlePoll
    /\ toggles = [i \in 1..MaxToggle |-> IdleToggle]
    /\ userRoles = NoRoles
    /\ dialogs = NoDialogs
    /\ handler = IdleHandler
    /\ \E token \in AccountTokens : mount = Mounting(token)
    /\ last = NoStep

NextMount ==
    \/ MountStep
    \/ \E i \in 1..MaxFetch : FetchPrimaryOk(i)
    \/ \E i \in 1..MaxFetch : FetchPrimaryFail(i)

SpecMount == InitMount /\ [][NextMount]_vars

\* ------------------------------------ specification of the file operations
\* The component after construction, when the root preload has been answered
\* and initializeComponent still awaits the token of an uploader.
InitOps ==
    /\ files = <<>>
    /\ folders = <<>>
    /\ currentPath = ROOT
    /\ loading = FALSE
    /\ error = NULL
    /\ selectedFile = NoFile
    /\ uploadProgress = NoProgress
    /\ treeCache = CachePut(EmptyCache, ROOT, <<PA>>)
    /\ expandedPaths = {ROOT}
    /\ fetches = [i \in 1..MaxFetch |-> IdleFetch]
    /\ up = IdleUp
    /\ reqLog = <<>>
    /\ poll = IdlePoll
    /\ toggles = [i \in 1..MaxToggle |-> IdleToggle]
    /\ userRoles = NoRoles
    /\ dialogs = NoDialogs
    /\ handler = IdleHandler
    /\ mount = [Mounting(Jwt("b")) EXCEPT !.preload = "done", !.sent = TRUE]
    /\ last = NoStep

NextOps ==
    \/ InitTokenOk
    \/ InitTokenFail
    \/ FetchStep
    \/ \E folderPath \in Paths : HandleNavigateFolderAtRest(folderPath)
    \/ \E folderPath \in Paths : HandleNavigateFolderTokenFail(folderPath)
    \/ UploadNoFile
    \/ OpenCreateFolder
    \/ \E name \in NameInputs : TypeFolderName(name)
    \/ CreateFolderInvalid
    \/ HandleCreateFolder
    \/ CreateFolderOk
    \/ \E target \in AllTargets : OpenRename(target)
    \/ \E name \in NameInputs : TypeRenameName(name)
    \/ RenameInvalid
    \/ HandleRenameItem
    \/ RenameOk
    \/ \E target \in AllTargets : OpenMove(target)
    \/ \E dest \in DestInputs : TypeMoveDestination(dest)
    \/ MoveInvalid
    \/ HandleMoveFile
    \/ MoveOk
    \/ \E name \in FileItems : ConfirmDeclined("delete", name)
    \/ \E name \in FileItems : ConfirmAccepted("delete", name)
    \/ \E name \in FolderItems : ConfirmDeclined("deleteFolder", name)
    \/ \E name \in FolderItems : ConfirmAccepted("deleteFolder", name)
    \/ DeleteOk
    \/ \E filename \in FileItems : HandleDownload(filename)
    \/ DownloadOk
    \/ HandlerTokenOk
    \/ HandlerTokenFail
    \/ HandlerRequestFail

SpecOps == InitOps /\ [][NextOps]_vars

\* ------------------------------------- specification of folder creation
\* The component of an uploader after its mount: the roles are set, the root
\* listing is shown and the New Folder dialog has been opened.  The user goes
\* into folders, types names and creates folders.
InitCreate ==
    /\ files = <<"f1">>
    /\ folders = <<PA>>
    /\ currentPath = ROOT
    /\ loading = FALSE
    /\ error = NULL
    /\ selectedFile = NoFile
    /\ uploadProgress = NoProgress
    /\ treeCache = CachePut(EmptyCache, ROOT, <<PA>>)
    /\ expandedPaths = {ROOT}
    /\ fetches = [i \in 1..MaxFetch |-> IdleFetch]
    /\ up = IdleUp
    /\ reqLog = <<>>
    /\ poll = IdlePoll
    /\ toggles = [i \in 1..MaxToggle |-> IdleToggle]
    /\ userRoles = RolesOf(<<READER_GROUP_ID, UPLOADER_GROUP_ID>>)
    /\ dialogs = [NoDialogs EXCEPT !.showCreateFolder = TRUE]
    /\ handler = IdleHandler
    /\ mount = [Mounting(Jwt("b")) EXCEPT !.init = "done", !.preload = "done", !.sent = TRUE]
    /\ last = NoStep

NextCreate ==
    \/ FetchStep
    \/ \E folderPath \in Paths : HandleNavigateFolder(folderPath)
    \/ OpenCreateFolder
    \/ \E name \in NameInputs : TypeFolderName(name)
    \/ CreateFolderInvalid
    \/ HandleCreateFolder
    \/ CreateFolderOk
    \/ HandlerTokenOk
    \/ HandlerTokenFail
    \/ HandlerRequestFail

SpecCreate == InitCreate /\ [][NextCreate]_vars

\* ---------------------- specification of the operations after a creation
\* The component of an uploader who has created the folder d in the root: the
\* folder is in the folder list and in the cache entry of the root, where
\* handleCreateFolder has put it, and the listing that followed has failed.
InitContain ==
    /\ files = <<"f1">>
    /\ folders = <<PA, <<"d">>>>
    /\ currentPath = ROOT
    /\ loading = FALSE
    /\ error = MsgFetch
    /\ selectedFile = NoFile
    /\ uploadProgress = NoProgress
    /\ treeCache = CachePut(EmptyCache, ROOT, <<PA, <<"d">>>>)
    /\ expandedPaths = {ROOT}
    /\ fetches = [i \in 1..MaxFetch |-> IdleFetch]
    /\ up = IdleUp
    /\ reqLog = <<>>
    /\ poll = IdlePoll
    /\ toggles = [i \in 1..MaxToggle |-> IdleToggle]
    /\ userRoles = RolesOf(<<READER_GROUP_ID, UPLOADER_GROUP_ID>>)
    /\ dialogs = NoDialogs
    /\ handler = IdleHandler
    /\ mount = [Mounting(Jwt("b")) EXCEPT !.init = "done", !.preload = "done", !.sent = TRUE]
    /\ last = NoStep

NextContain ==
    \/ FetchStep
    \/ \E folderPath \in Paths : HandleNavigateFolderAtRest(folderPath)
    \/ \E folderPath \in Paths : HandleNavigateFolderTokenFail(folderPath)
    \/ UploadNoFile
    \/ OpenCreateFolder
    \/ \E name \in NameInputs : TypeFolderName(name)
    \/ CreateFolderInvalid
    \/ HandleCreateFolder
    \/ CreateFolderOk
    \/ \E target \in AllTargets : OpenRename(target)
    \/ \E name \in NameInputs : TypeRenameName(name)
    \/ RenameInvalid
    \/ HandleRenameItem
    \/ RenameOk
    \/ \E target \in AllTargets : OpenMove(target)
    \/ \E dest \in DestInputs : TypeMoveDestination(dest)
    \/ MoveInvalid
    \/ HandleMoveFile
    \/ MoveOk
    \/ \E name \in FileItems : ConfirmDeclined("delete", name)
    \/ \E name \in FileItems : ConfirmAccepted("delete", name)
    \/ \E name \in FolderItems : ConfirmDeclined("deleteFolder", name)
    \/ \E name \in FolderItems : ConfirmAccepted("deleteFolder", name)
    \/ DeleteOk
    \/ \E filename \in FileItems : HandleDownload(filename)
    \/ DownloadOk
    \/ HandlerTokenOk
    \/ HandlerTokenFail
    \/ HandlerRequestFail

SpecContain == InitContain /\ [][NextContain]_vars

\* ------------------------------- specification of the refresh after upload
\* The provider issues a renewed token for the account: from now on
\* getAccessToken resolves to it (part_000:38).
TokenRenewed ==
    /\ Epoch(mount.token) = 0
    /\ mount' = [mount EXCEPT !.token = Renewed(mount.token)]
    /\ last' = Step("renewed")
    /\ UNCHANGED <<uiVars, fetches, up, reqLog, poll, toggles, userRoles, dialogs, handler>>

\* The uploader of SpecUpload with a file below the chunking threshold
\* selected: the file is uploaded and polled for while the provider renews the
\* token.
InitRefresh ==
    /\ \/ /\ currentPath = ROOT
          /\ treeCache = CachePut(EmptyCache, ROOT, <<PA>>)
          /\ folders = <<PA>>
          /\ expandedPaths = {ROOT}
       \/ /\ currentPath = PA
          /\ treeCache = CachePut(CachePut(EmptyCache, ROOT, <<PA>>), PA, <<>>)
          /\ folders = <<>>
          /\ expandedPaths = {ROOT, PA}
    /\ files = <<>>
    /\ loading = FALSE
    /\ error = NULL
    /\ \E size \in Sizes : ~UseChunked(size) /\ selectedFile = File(size)
    /\ uploadProgress = NoProgress
    /\ fetches = [i \in 1..MaxFetch |-> IdleFetch]
    /\ up = IdleUp
    /\ reqLog = <<>>
    /\ poll = IdlePoll
    /\ toggles = [i \in 1..MaxToggle |-> IdleToggle]
    /\ userRoles = [isReader |-> TRUE, isUploader |-> TRUE, isAdmin |-> FALSE]
    /\ dialogs = NoDialogs
    /\ handler = IdleHandler
    /\ mount = [Mounting(Jwt("b")) EXCEPT !.init = "done", !.preload = "done", !.sent = TRUE]
    /\ last = NoStep

NextRefresh ==
    \/ HandleUpload
    \/ UploadTokenOk
    \/ UploadTokenFail
    \/ SingleOk
    \/ SingleFail
    \/ PollTick
    \/ ExistsTrue
    \/ ExistsFalse
    \/ ExistsFail
    \/ FetchStep
    \/ TokenRenewed

SpecRefresh == InitRefresh /\ [][NextRefresh]_vars

\* ------------------------- specification of the uploads with navigation
\* The uploaders of SpecChunk and SpecRefresh, who open one folder from the
\* tree while their file is being uploaded or before its first exists request
\* is sent, at a moment at which no listing request is outstanding.
NavigateDuringUpload(path) ==
    /\ last.clicks = 0
    /\ up.pc # "idle" \/ (poll.armed /\ poll.sent = 0)
    /\ \A i \in 1..MaxFetch : fetches[i].pc = "idle"
    /\ NavigateToPath(path)

InitReturn == InitRefresh \/ InitChunk

NextReturn ==
    \/ HandleUpload
    \/ UploadTokenOk
    \/ UploadTokenFail
    \/ ChunkOk
    \/ ChunkFail
    \/ CommitOk
    \/ CommitFail
    \/ SingleOk
    \/ SingleFail
    \/ PollTick
    \/ ExistsTrue
    \/ ExistsFalse
    \/ ExistsFail
    \/ FetchStep
    \/ \E path \in {ROOT, PA} : NavigateDuringUpload(path)

SpecReturn == InitReturn /\ [][NextReturn]_vars

\* ------------------------------------- the simpler variants of the component
\* src/unnamed/part_001 (folders, no tree), src/unnamed/part_002 and
\* src/src/components/FileManager.js (a flat listing) are earlier versions of
\* the component.  Their handleUpload is followed here for a file below the
\* chunking threshold; up.variant names the version that is running.
Variants == {"part_001", "part_002", "FileManager.js"}
MsgPrepare == "Failed to prepare upload."

\* whether handleUpload of the variant starts a setInterval after its POST
\* (part_001:211-236 and part_002:195-220 do, FileManager.js:115-135 does not)
Polls(v) == v \in {"part_001", "part_002"}

InitVariant ==
    /\ currentPath = ROOT
    /\ treeCache = EmptyCache
    /\ folders = <<>>
    /\ expandedPaths = {ROOT}
    /\ files = <<>>
    /\ loading = FALSE
    /\ error = NULL
    /\ \E size \in Sizes : ~UseChunked(size) /\ selectedFile = File(size)
    /\ uploadProgress = NoProgress
    /\ fetches = [i \in 1..MaxFetch |-> IdleFetch]
    /\ \E v \in Variants : up = [IdleUp EXCEPT !.variant = v]
    /\ reqLog = <<>>
    /\ poll = IdlePoll
    /\ toggles = [i \in 1..MaxToggle |-> IdleToggle]
    /\ userRoles = [isReader |-> TRUE, isUploader |-> TRUE, isAdmin |-> FALSE]
    /\ dialogs = NoDialogs
    /\ handler = IdleHandler
    /\ mount = [Mounting(Jwt("b")) EXCEPT !.init = "done", !.preload = "done", !.sent = TRUE]
    /\ last = NoStep

\* handleUpload up to its first await (part_001:175-182, part_002:159-166,
\* FileManager.js:104-111); the button is disabled={loading || !selectedFile}
VariantHandleUpload ==
    /\ ~loading
    /\ selectedFile.present
    /\ up.pc = "idle"
    /\ up.uploads < MaxUploads
    /\ ~poll.armed /\ poll.inflight = 0
    /\ loading' = TRUE
    /\ up' = [up EXCEPT !.pc = "token", !.size = selectedFile.size, !.result = "none",
                        !.uploads = @ + 1]
    /\ reqLog' = <<>>
    /\ poll' = IdlePoll
    /\ UNCHANGED <<files, folders, currentPath, error, selectedFile, uploadProgress,
                   treeCache, expandedPaths, fetches, toggles>>
    /\ last' = Step("upload")
    /\ UNCHANGED opsVars

\* getAccessToken rejects: the outer catch (part_001:238-243,
\* part_002:222-227, FileManager.js:137-141)
VariantTokenFail ==
    /\ up.pc = "token"
    /\ error' = IF up.variant = "FileManager.js" THEN MsgPrepare ELSE MsgUpload
    /\ loading' = FALSE
    /\ up' = [up EXCEPT !.pc = "idle", !.result = "failed"]
    /\ UNCHANGED <<files, folders, currentPath, selectedFile, uploadProgress,
                   treeCache, expandedPaths, fetches, reqLog, poll, toggles>>
    /\ last' = Step("upload")
    /\ UNCHANGED opsVars

\* getAccessToken resolves and the POST of the whole file is sent
\* (part_001:182-207, part_002:166-191; FileManager.js:111-124, where the file
\* is read by a FileReader first and the POST is sent from its onload)
VariantTokenOk ==
    /\ up.pc = "token"
    /\ up' = [up EXCEPT !.pc = "single", !.token = mount.token]
    /\ reqLog' = Append(reqLog, SingleReq(up.size, ROOT))
    /\ UNCHANGED <<files, folders, currentPath, loading, error, selectedFile,
                   uploadProgress, treeCache, expandedPaths, fetches, poll, toggles>>
    /\ last' = Step("upload")
    /\ UNCHANGED opsVars

\* variant: every version lists the files as soon as the POST has resolved
VariantPostOk_refreshes ==
    /\ up.pc = "single"
    /\ FreeFetch # {}
    /\ selectedFile' = NoFile
    /\ fetches' = StartFetch(up.token, EMPTY, "upload")
    /\ error' = NULL
    /\ loading' = FALSE
    /\ UNCHANGED poll
    /\ up' = [up EXCEPT !.pc = "idle", !.result = "ok", !.token = EMPTY]
    /\ UNCHANGED <<files, folders, currentPath, uploadProgress, treeCache, expandedPaths,
                   reqLog, toggles>>
    /\ last' = Step("uploaded")
    /\ UNCHANGED opsVars

\* the POST resolves.  part_001:209-237 and part_002:193-221 clear the
\* selection and the error and start the polling timer, and the finally sets
\* loading to false; FileManager.js:125-133 clears the selection, calls
\* fetchFiles(token), which sets loading and clears the error, and its finally
\* sets loading to false in the same task.
VariantPostOk ==
    /\ up.pc = "single"
    /\ selectedFile' = NoFile
    /\ IF Polls(up.variant)
       THEN /\ poll' = [IdlePoll EXCEPT !.armed = TRUE, !.token = up.token]
            /\ UNCHANGED fetches
       ELSE /\ FreeFetch # {}
            /\ fetches' = StartFetch(up.token, EMPTY, "upload")
            /\ UNCHANGED poll
    /\ error' = NULL
    /\ loading' = FALSE
    /\ up' = [up EXCEPT !.pc = "idle", !.result = "ok", !.token = EMPTY]
    /\ UNCHANGED <<files, folders, currentPath, uploadProgress, treeCache, expandedPaths,
                   reqLog, toggles>>
    /\ last' = Step("uploaded")
    /\ UNCHANGED opsVars

\* the POST rejects (part_001:238-243, part_002:222-227,
\* FileManager.js:129-134)
VariantPostFail ==
    /\ up.pc = "single"
    /\ error' = MsgUpload
    /\ loading' = FALSE
    /\ up' = [up EXCEPT !.pc = "idle", !.result = "failed", !.token = EMPTY]
    /\ UNCHANGED <<files, folders, currentPath, selectedFile, uploadProgress,
                   treeCache, expandedPaths, fetches, reqLog, poll, toggles>>
    /\ last' = Step("upload")
    /\ UNCHANGED opsVars

\* an exists GET answers { exists: true }: clearInterval and fetchFiles(token)
\* (part_001:223-225, part_002:207-209)
VariantExistsTrue ==
    /\ poll.inflight > 0
    /\ FreeFetch # {}
    /\ poll' = [ClearInterval(poll) EXCEPT !.inflight = @ - 1, !.refreshes = @ + 1]
    /\ fetches' = StartFetch(poll.token, EMPTY, "poll")
    /\ loading' = TRUE
    /\ error' = NULL
    /\ UNCHANGED <<files, folders, currentPath, selectedFile, uploadProgress,
                   treeCache, expandedPaths, up, reqLog, toggles>>
    /\ last' = Step("existsTrue")
    /\ UNCHANGED opsVars

\* fetchFiles of the variants: the GET is answered with a listing.  part_001
\* sets currentPath, files and folders (part_001:52-54, 58-60), the other two
\* set files alone (part_002:43, 47-49; FileManager.js:95, 99-101).
VariantFetchOk(i) ==
    /\ fetches[i].pc = "primary"
    /\ Authenticated(fetches[i].token)
    /\ \E r \in Listings(fetches[i].folderPath) :
        /\ files' = r.files
        /\ IF up.variant = "part_001"
           THEN currentPath' = OrRoot(r.currentPath) /\ folders' = r.folders
           ELSE UNCHANGED <<currentPath, folders>>
    /\ loading' = FALSE
    /\ fetches' = [fetches EXCEPT ![i] = IdleFetch]
    /\ UNCHANGED <<error, selectedFile, uploadProgress, treeCache, expandedPaths,
                   up, reqLog, poll, toggles>>
    /\ last' = Step("fetch")
    /\ UNCHANGED opsVars

\* fetchFiles of the variants: the GET rejects (part_001:55-60,
\* part_002:44-49, FileManager.js:96-101)
VariantFetchFail(i) ==
    /\ fetches[i].pc = "primary"
    /\ error' = MsgFetch
    /\ loading' = FALSE
    /\ fetches' = [fetches EXCEPT ![i] = IdleFetch]
    /\ UNCHANGED <<files, folders, currentPath, selectedFile, uploadProgress,
                   treeCache, expandedPaths, up, reqLog, poll, toggles>>
    /\ last' = Step("fetch")
    /\ UNCHANGED opsVars

VariantFetchStep == \E i \in 1..MaxFetch : VariantFetchOk(i) \/ VariantFetchFail(i)

\* The callback of the timer up to its await and the answers false and
\* rejected are, line by line, those of part_000 (part_001:217-222, 226-235;
\* part_002:201-206, 210-219).
NextVariant ==
    \/ VariantHandleUpload
    \/ VariantTokenOk
    \/ VariantTokenFail
    \/ VariantPostOk
    \/ VariantPostFail
    \/ PollTick
    \/ VariantExistsTrue
    \/ ExistsFalse
    \/ ExistsFail
    \/ VariantFetchStep

SpecVariant == InitVariant /\ [][NextVariant]_vars

\* --------------------------------------------- specification of the tree
\* The folder of SpecCreate with the side bar: the user navigates by the
\* folder list, creates folders and toggles the nodes of the tree.
NextTree ==
    \/ FetchStep
    \/ \E folderPath \in Paths : HandleNavigateFolder(folderPath)
    \/ OpenCreateFolder
    \/ \E name \in NameInputs : TypeFolderName(name)
    \/ CreateFolderInvalid
    \/ HandleCreateFolder
    \/ CreateFolderOk
    \/ HandlerTokenOk
    \/ HandlerTokenFail
    \/ HandlerRequestFail
    \/ \E path \in Paths : ToggleCollapse(path)
    \/ \E path \in Paths : ToggleExpand(path)
    \/ ToggleStep

SpecTree == InitCreate /\ [][NextTree]_vars

\* ------------------------------------------- specification of the moves
\* the destinations typed into the move dialog
MoveDestInputs == DestInputs \cup { <<"/", "/", "a", "/", "/">>, PC }

\* the file entries a listing of the folder cp may show for the file f1: with
\* name and fullPath, with the name alone, with the fullPath alone
MoveEntries(cp) ==
    { Target("file", FileArg("f1"), EntryPath(cp, FileArg("f1"))),
      Target("file", FileArg("f1"), EMPTY),
      Target("file", EMPTY, EntryPath(cp, FileArg("f1"))) }

\* The component of an uploader after its mount, showing the root or the folder
\* "a", when the move dialog has been opened for a file of the listing.
InitMove ==
    /\ \/ /\ currentPath = ROOT
          /\ treeCache = CachePut(EmptyCache, ROOT, <<PA>>)
          /\ folders = <<PA>>
          /\ expandedPaths = {ROOT}
       \/ /\ currentPath = PA
          /\ treeCache = CachePut(CachePut(EmptyCache, ROOT, <<PA>>), PA, <<>>)
          /\ folders = <<>>
          /\ expandedPaths = {ROOT, PA}
    /\ files = <<"f1">>
    /\ loading = FALSE
    /\ error = NULL
    /\ selectedFile = NoFile
    /\ uploadProgress = NoProgress
    /\ fetches = [i \in 1..MaxFetch |-> IdleFetch]
    /\ up = IdleUp
    /\ reqLog = <<>>
    /\ poll = IdlePoll
    /\ toggles = [i \in 1..MaxToggle |-> IdleToggle]
    /\ userRoles = RolesOf(<<READER_GROUP_ID, UPLOADER_GROUP_ID>>)
    /\ \E target \in MoveEntries(currentPath) :
        dialogs = [NoDialogs EXCEPT !.showMoveDialog = TRUE, !.moveTarget = target,
                                    !.moveDestination = FolderArg(currentPath)]
    /\ handler = IdleHandler
    /\ mount = [Mounting(Jwt("b")) EXCEPT !.init = "done", !.preload = "done", !.sent = TRUE]
    /\ last = NoStep

NextMove ==
    \/ FetchStep
    \/ \E target \in AllTargets : OpenMove(target)
    \/ \E dest \in MoveDestInputs : TypeMoveDestination(dest)
    \/ MoveInvalid
    \/ HandleMoveFile
    \/ MoveOk
    \/ HandlerTokenOk
    \/ HandlerTokenFail
    \/ HandlerRequestFail

SpecMove == InitMove /\ [][NextMove]_vars

\* ------------------------------------------------------------ properties
\* the smallest n with n * CHUNK_SIZE >= size
CeilChunks(size) ==
    CHOOSE n \in 0..(MaxChunks + 2) :
        /\ n * CHUNK_SIZE >= size
        /\ \A m \in 0..(MaxChunks + 2) : m * CHUNK_SIZE >= size => n <= m

Kinds(log) == { log[k].kind : k \in 1..Len(log) }
ChunksSent == Cardinality({ k \in 1..Len(reqLog) : reqLog[k].kind = "chunk" })

\* C1 (as claimed): no upload that has ended leaves a progress state other than
\* "no active upload".
C1_ProgressClearedWhenEnded ==
    up.pc = "idle" => uploadProgress = NoProgress

\* C2: for a file above 100 MiB the upload requests sent are, in this order,
\* the chunks 0, 1, ... of ceil(size / 50 MiB) chunks and then one commit; when
\* every request succeeded all of them were sent; no single-request upload.
C2_ChunkSequence ==
    (up.uploads > 0 /\ up.size > USE_CHUNKED_THRESHOLD) =>
        LET n == CeilChunks(up.size) IN
        /\ Len(reqLog) <= n + 1
        /\ \A k \in 1..Len(reqLog) :
            IF k <= n
            THEN /\ reqLog[k].kind = "chunk"
                 /\ reqLog[k].chunkIndex = k - 1
                 /\ reqLog[k].totalChunks = n
            ELSE reqLog[k].kind = "commit"
        /\ up.result = "ok" => Len(reqLog) = n + 1

C2_Witness ==
    /\ up.result = "ok"
    /\ up.size = 3 * CHUNK_SIZE + 1
    /\ Len(reqLog) = 5
    /\ reqLog[5].kind = "commit"

\* C3: the chunk requests sent exceed the chunk requests that resolved by at
\* most one, the one that is awaited or the one that was rejected; the commit
\* is sent only when every chunk request has resolved; once the upload has
\* failed nothing more is sent.
C3_OneChunkInFlight ==
    /\ [](/\ ChunksSent - up.acked \in {0, 1}
          /\ up.pc = "chunk" => ChunksSent - up.acked = 1
          /\ ChunksSent - up.acked = 1 => (up.pc = "chunk" \/ up.result = "failed")
          /\ "commit" \in Kinds(reqLog) =>
                /\ up.acked = ChunksSent
                /\ up.acked = CeilChunks(up.size))
    /\ [][(up.result = "failed" /\ up'.uploads = up.uploads) => reqLog' = reqLog]_vars

C3_Witness ==
    /\ up.result = "failed"
    /\ up.pc = "idle"
    /\ ChunksSent = 2
    /\ up.acked = 1
    /\ "commit" \notin Kinds(reqLog)

\* C4: a file of at most 100 MiB is sent as exactly one multipart request and
\* no chunk or commit request; a larger file as chunk and commit requests only.
C4_StrategyBySize ==
    up.uploads > 0 =>
        IF up.size <= USE_CHUNKED_THRESHOLD
        THEN /\ Kinds(reqLog) \subseteq {"single"}
             /\ Len(reqLog) <= 1
             /\ (up.pc = "single" \/ up.result = "ok") => Len(reqLog) = 1
        ELSE /\ Kinds(reqLog) \subseteq {"chunk", "commit"}
             /\ up.pc \notin {"idle", "token"} => Len(reqLog) >= 1

C4_Witness ==
    /\ up.result = "ok"
    /\ up.size = USE_CHUNKED_THRESHOLD
    /\ reqLog = <<SingleReq(USE_CHUNKED_THRESHOLD, up.cp)>>

\* an exists answer arrives in this step
ExistsAnswered == poll'.inflight = poll.inflight - 1

\* C5: an exists answer of false stops the timer exactly when 100 attempts have
\* been made, and it starts no listing request, sets no error and changes
\* nothing of the listing.
C5_PollTimeout ==
    [][(ExistsAnswered /\ last'.op = "existsFalse") =>
            /\ poll'.armed = (poll.armed /\ poll.attempts < maxAttempts)
            /\ poll'.refreshes = poll.refreshes
            /\ UNCHANGED <<files, folders, currentPath, loading, error, treeCache,
                           expandedPaths, fetches>>]_vars

C5_Witness ==
    /\ ~poll.armed
    /\ poll.timedOut
    /\ poll.inflight = 0
    /\ last.op = "existsFalse"
    /\ poll.refreshes = 0
    /\ error = NULL

\* C6: a rejected exists request before the 100th attempt leaves the timer
\* armed; the timer is stopped only by an answer of true or at 100 attempts.
C6_FailureKeepsPolling ==
    /\ [][(ExistsAnswered /\ last'.op = "existsFail" /\ poll.attempts < maxAttempts) =>
            poll'.armed = poll.armed]_vars
    /\ [][(poll.armed /\ ~poll'.armed) =>
            (last'.op = "existsTrue" \/ poll.attempts >= maxAttempts)]_vars

C6_Witness ==
    /\ poll.armed
    /\ last.op = "existsFail"
    /\ poll.inflight = 1
    /\ poll.attempts = 3

\* C7: the first answer of true stops the timer and starts one listing request
\* for the folder of the upload; no exists request is sent afterwards.
C7_ExistsStopsAndRefreshes ==
    /\ [][(ExistsAnswered /\ poll.refreshes = 0 /\ poll'.refreshes = 1) =>
            /\ ~poll'.armed
            /\ \E i \in 1..MaxFetch :
                /\ fetches[i].pc = "idle"
                /\ fetches'[i].pc = "primary"
                /\ fetches'[i].folderPath = FolderArg(poll.cp)
                /\ \A j \in 1..MaxFetch : j # i => fetches'[j] = fetches[j]]_vars
    /\ [][(last'.op = "tick" /\ poll'.inflight = poll.inflight + 1) =>
            (poll.armed /\ poll.refreshes = 0)]_vars

C7_Witness ==
    /\ poll.refreshes = 1
    /\ ~poll.armed
    /\ ~poll.timedOut
    /\ poll.inflight = 1
    /\ last.op = "existsTrue"
    /\ \E i \in 1..MaxFetch : fetches[i].pc = "primary" /\ fetches[i].src = "poll"

\* C8 (as claimed): one polling loop sends at most 100 exists requests.
C8_AtMostMaxAttempts ==
    poll.sent <= maxAttempts

\* C9: the step in which the request of fetchFiles fails, and the step that
\* started the call, leave files, folders, currentPath, the tree cache and the
\* expanded paths as they were; the failure sets the error 'Failed to fetch
\* files.' and loading to false.
C9_FailedListingKeepsState ==
    [][\A i \in 1..MaxFetch :
        /\ (fetches[i].pc = "idle" /\ fetches'[i].pc = "primary") =>
                UNCHANGED <<files, folders, currentPath, treeCache, expandedPaths>>
        /\ (fetches[i].pc = "primary" /\ fetches'[i].pc = "idle" /\ last'.op = "fetchFail") =>
                /\ UNCHANGED <<files, folders, currentPath, treeCache, expandedPaths>>
                /\ error' = MsgFetch
                /\ loading' = FALSE]_vars

C9_Witness ==
    /\ last.op = "fetchFail"
    /\ error = MsgFetch
    /\ ~loading
    /\ currentPath = PA
    /\ files = <<"f1">>
    /\ folders = <<PAB>>
    /\ PA \in DOMAIN treeCache

\* C10: a click that expands a node whose path is a key of the tree cache sends
\* no request (no toggleExpand or fetchFiles invocation is left waiting for
\* one) and leaves the tree cache unchanged, every time.
C10_CacheHitNoRequest ==
    [][(last'.clicks = last.clicks + 1 /\ last'.op = "toggle"
            /\ last'.path \notin expandedPaths /\ last'.path \in DOMAIN treeCache) =>
        /\ toggles' = toggles
        /\ fetches' = fetches
        /\ treeCache' = treeCache
        /\ expandedPaths' = expandedPaths \cup {last'.path}]_vars

C10_Witness ==
    /\ last.op = "toggle"
    /\ last.clicks = 3
    /\ last.path = ROOT
    /\ ROOT \in expandedPaths
    /\ ROOT \in DOMAIN treeCache
    /\ \A i \in 1..MaxToggle : toggles[i].pc = "idle"

\* C11: when the listing requested by expanding a node that was not cached
\* arrives, the cache entry of the node's path is exactly the folders list of
\* that listing, whatever the entry held before, and the files shown are not
\* touched.
C11_ToggleLoadReplaces ==
    [][\A i \in 1..MaxToggle :
        (toggles[i].pc = "get" /\ toggles'[i].pc = "idle" /\ last'.op = "toggleOk") =>
            /\ toggles[i].path \in DOMAIN treeCache'
            /\ treeCache'[toggles[i].path] = last'.folders
            /\ last'.folders \in ServerFolders(toggles[i].path)
            /\ files' = files]_vars

\* the root, cached as <<PA, PC>> by a listing while its load was on the way,
\* holds the <<PA>> the load received
C11_Witness ==
    /\ last.op = "toggleOk"
    /\ last.folders = <<PA>>
    /\ ROOT \in DOMAIN treeCache
    /\ treeCache[ROOT] = <<PA>>
    /\ currentPath = ROOT
    /\ folders = <<PA, PC>>

\* the groups named by the payload of the account's token, read off the table
ClaimedGroups ==
    LET c == PayloadTable[mount.token[3]] IN
    IF c.hasGroups THEN { c.groups[k] : k \in 1..Len(c.groups) } ELSE {}

\* the account's tokens that do not decode to an object
Undecodable == { Jwt("!"), Jwt("n"), <<"h">> }

\* a listing request is outstanding or the preload has sent one
ListingRequested == mount.sent \/ \E i \in 1..MaxFetch : fetches[i].pc # "idle"

\* C12 (as claimed): for an account whose token gives none of the three roles
\* no listing request is ever sent, and once the roles are known the
\* permission message is shown.
C12_NoRoleNoListing ==
    (mount.token \notin Undecodable
        /\ ClaimedGroups \cap {READER_GROUP_ID, UPLOADER_GROUP_ID, ADMIN_GROUP_ID} = {}) =>
            /\ ~ListingRequested
            /\ mount.init = "denied" => error = MsgPermission

\* C13: once initializeComponent has decoded the token each role flag is true
\* exactly when the groups claim holds the configured id of the role (none when
\* the claim is absent), before that the flags are all false, and the step that
\* sets at least one flag sends the listing request of the root with the token.
C13_RolesFromGroups ==
    /\ [](/\ mount.init \in {"done", "denied"} =>
                /\ userRoles.isReader = (READER_GROUP_ID \in ClaimedGroups)
                /\ userRoles.isUploader = (UPLOADER_GROUP_ID \in ClaimedGroups)
                /\ userRoles.isAdmin = (ADMIN_GROUP_ID \in ClaimedGroups)
                /\ (mount.init = "done") = MayList(userRoles)
          /\ mount.init \in {"token", "failed"} => userRoles = NoRoles)
    /\ [][(mount.init = "token" /\ mount'.init # "token" /\ MayList(userRoles')) =>
            \E i \in 1..MaxFetch :
                /\ fetches[i].pc = "idle"
                /\ fetches'[i].pc = "primary"
                /\ fetches'[i].folderPath = EMPTY
                /\ fetches'[i].token = mount.token]_vars

\* an uploader in an unknown group as well: uploader only, the listing is shown
C13_Witness ==
    /\ mount.token = Jwt("u")
    /\ mount.init = "done"
    /\ userRoles = [isReader |-> FALSE, isUploader |-> TRUE, isAdmin |-> FALSE]
    /\ files = <<"f1">>
    /\ ~loading

\* C14: when getAccessToken rejects or the token does not decode, the step that
\* ends initializeComponent sets 'Failed to initialize. Please log in again.',
\* leaves the role flags as they were (all false) and sends no listing request;
\* a token that does not decode never ends in the permission message.
C14_InitFailure ==
    /\ [][(mount.init = "token" /\ mount'.init = "failed") =>
            /\ error' = MsgInit
            /\ userRoles' = userRoles
            /\ fetches' = fetches
            /\ mount'.sent = mount.sent]_vars
    /\ [](/\ (mount.init # "token" /\ mount.token \in Undecodable) => mount.init = "failed"
          /\ mount.init = "failed" =>
                /\ userRoles = NoRoles
                /\ error = MsgInit
                /\ \A i \in 1..MaxFetch : fetches[i].pc = "idle")

\* the payload of the token is the JSON null
C14_Witness ==
    /\ mount.token = Jwt("n")
    /\ mount.init = "failed"
    /\ last.op = "initFailed"
    /\ error = MsgInit
    /\ mount.preload = "done"

\* a handler's request has been answered with success in this step
HandlerSucceeded ==
    handler.pc = "request" /\ handler'.pc = "idle" /\ last'.op = "handlerOk"

\* the text is empty or consists of spaces
Blank(text) == \A k \in 1..Len(text) : text[k] = " "

C16_RefreshAfterMutation ==
    [][(HandlerSucceeded /\ handler.kind # "download") =>
            \E i \in 1..MaxFetch :
                /\ fetches[i].pc = "idle"
                /\ fetches'[i].pc = "primary"
                /\ fetches'[i].folderPath = Query(FolderArg(handler.cp))
                /\ fetches'[i].token = handler.token]_vars

\* C17 (as claimed): every request that is outstanding carries a token of the
\* token provider as its bearer.
C17_BearerIsToken ==
    /\ \A i \in 1..MaxFetch : fetches[i].pc # "idle" => fetches[i].token \in AccountTokens
    /\ handler.pc = "request" => handler.token \in AccountTokens

\* C18: a handler called with no file, or with a name or destination that is
\* blank, sets its message and changes nothing else: no handler invocation
\* awaits a token or an answer, no listing request is sent, the listing, the
\* tree cache and the dialogs stay; and a create folder, rename or move that
\* does go on to its token has a text that is not blank.
C18_ValidationBlocks ==
    /\ [][(last'.clicks = last.clicks + 1
            /\ last'.op \in {"uploadInvalid", "createInvalid", "renameInvalid", "moveInvalid"}) =>
            /\ error' = (CASE last'.op = "uploadInvalid" -> MsgSelect
                           [] last'.op = "createInvalid" -> MsgFolderEmpty
                           [] last'.op = "renameInvalid" -> MsgNameEmpty
                           [] last'.op = "moveInvalid" -> MsgDestEmpty)
            /\ last'.op # "uploadInvalid" => Blank(last'.path)
            /\ UNCHANGED <<files, folders, currentPath, treeCache, expandedPaths, dialogs,
                           loading, handler, fetches, up, reqLog, poll, toggles>>]_vars
    /\ [][(handler.pc = "idle" /\ handler'.pc = "token") =>
            /\ handler'.kind = "createFolder" => ~Blank(dialogs.newFolderName)
            /\ handler'.kind = "rename" => ~Blank(dialogs.renameName)
            /\ handler'.kind = "move" => ~Blank(dialogs.moveDestination)]_vars

\* Enter in the rename dialog with a name of one space
C18_Witness ==
    /\ last.op = "renameInvalid"
    /\ last.path = <<" ">>
    /\ error = MsgNameEmpty
    /\ dialogs.showRenameDialog
    /\ dialogs.renameName = <<" ">>
    /\ dialogs.renameTarget = Target("file", FileArg("f1"), FileArg("f1"))
    /\ handler = IdleHandler
    /\ \A i \in 1..MaxFetch : fetches[i].pc = "idle"

\* C19: when window.confirm is declined nothing changes: no handler invocation
\* awaits a token or sends a request, loading, error, files and folders stay; a
\* delete handler that goes on was confirmed.
C19_DeleteNeedsConfirm ==
    /\ [][(last'.clicks = last.clicks + 1 /\ last'.op = "declined") =>
            UNCHANGED <<handler, fetches, loading, error, files, folders>>]_vars
    /\ [][(handler.pc = "idle" /\ handler'.pc = "token"
            /\ handler'.kind \in {"delete", "deleteFolder"}) =>
            last'.op = handler'.kind]_vars

\* the delete of the folder a was declined after a delete of f1 went through
C19_Witness ==
    /\ last.op = "declined"
    /\ last.path = PA
    /\ last.clicks = 2
    /\ handler = IdleHandler
    /\ ~loading
    /\ error = NULL
    /\ folders = <<PA>>

\* C20: handleCreateFolder keeps the currentPath and the name it was called
\* with, and the folderPath of its POST is the name at the root and otherwise
\* the currentPath, one slash and the name.
C20_CreateFolderPath ==
    /\ [][(handler.pc = "idle" /\ handler'.pc = "token" /\ handler'.kind = "createFolder") =>
            /\ handler'.cp = currentPath
            /\ handler'.name = dialogs.newFolderName]_vars
    /\ [][(handler.pc = "token" /\ handler'.pc = "request" /\ handler.kind = "createFolder") =>
            /\ handler'.cp = handler.cp
            /\ handler'.name = handler.name
            /\ handler.cp = ROOT => handler'.arg = handler.name
            /\ handler.cp # ROOT =>
                /\ Len(handler'.arg) = Len(handler.cp) + 1 + Len(handler.name)
                /\ SubSeq(handler'.arg, 1, Len(handler.cp)) = handler.cp
                /\ handler'.arg[Len(handler.cp) + 1] = "/"
                /\ SubSeq(handler'.arg, Len(handler.cp) + 2, Len(handler'.arg)) = handler.name]_vars

\* the POST for the folder d is outstanding with folderPath /a/d
C20_Witness ==
    /\ handler.pc = "request"
    /\ handler.kind = "createFolder"
    /\ handler.cp = PA
    /\ currentPath = PA
    /\ handler.name = <<"d">>
    /\ handler.arg = PA \o <<"/", "d">>

\* the lists show nothing but the entries the user actions are drawn from
ItemsCovered ==
    /\ \A k \in 1..Len(files) : EntryPath(currentPath, FileArg(files[k])) \in FileItems
    /\ SeqToSet(folders) \subseteq FolderItems
    /\ FileTargets \cup FolderTargets \subseteq AllTargets

\* every element of the text is a slash
Slashes(text) == \A k \in 1..Len(text) : text[k] = "/"

\* stripped is text without its leading and its trailing slashes
IsStripped(text, stripped) ==
    \E i \in 1..(Len(text) + 1) : \E j \in (i - 1)..Len(text) :
        /\ Slashes(SubSeq(text, 1, i - 1))
        /\ Slashes(SubSeq(text, j + 1, Len(text)))
        /\ stripped = SubSeq(text, i, j)
        /\ stripped # <<>> => stripped[1] # "/" /\ stripped[Len(stripped)] # "/"

\* the last segment of the item's path, and the path itself (the name stands
\* for both when the entry has no fullPath)
ItemBase(t) ==
    IF t.fullPath = EMPTY THEN t.name
    ELSE CHOOSE b \in { SubSeq(t.fullPath, k, Len(t.fullPath)) : k \in 1..(Len(t.fullPath) + 1) } :
            /\ "/" \notin SeqToSet(b)
            /\ Len(b) < Len(t.fullPath) => t.fullPath[Len(t.fullPath) - Len(b)] = "/"
ItemFull(t) == IF t.fullPath = EMPTY THEN t.name ELSE t.fullPath

\* C21: the POST of handleMoveFile carries as destinationPath the typed
\* destination without its leading and trailing slashes, one slash and the base
\* name of the item, and as sourcePath the full path of the item.
C21_MoveDestination ==
    [][(handler.pc = "token" /\ handler'.pc = "request" /\ handler.kind = "move") =>
            /\ handler'.source = ItemFull(dialogs.moveTarget)
            /\ \E n \in 0..Len(handler.arg) :
                /\ IsStripped(handler.arg, SubSeq(handler'.arg, 1, n))
                /\ SubSeq(handler'.arg, n + 1, Len(handler'.arg))
                        = <<"/">> \o ItemBase(dialogs.moveTarget)]_vars

\* f1 of the root is being moved to the typed destination /a/: a/f1
C21_Witness ==
    /\ handler.pc = "request"
    /\ handler.kind = "move"
    /\ dialogs.moveDestination = <<"/", "a", "/">>
    /\ handler.source = <<"f1">>
    /\ handler.arg = <<"a", "/", "f1">>

\* C22: the answer to the primary GET of a listing of a folder other than the
\* root sets currentPath, files, folders and the cache entry of the folder from
\* the response; the step that ends the root refresh of that listing, failed or
\* not, adds the folder to expandedPaths, sets loading to false, leaves error,
\* currentPath, files and folders alone and changes no cache entry but the root's.
C22_RootRefreshIsolated ==
    /\ [][\A i \in 1..MaxFetch :
            (fetches[i].pc = "primary" /\ fetches'[i].pc = "root") =>
                /\ currentPath' = fetches'[i].cp
                /\ currentPath' # ROOT
                /\ \E r \in Listings(fetches[i].folderPath) :
                    /\ r.currentPath = currentPath'
                    /\ files' = r.files
                    /\ folders' = r.folders
                /\ currentPath' \in DOMAIN treeCache'
                /\ treeCache'[currentPath'] = folders'
                /\ error' = error]_vars
    /\ [][\A i \in 1..MaxFetch :
            (fetches[i].pc = "root" /\ fetches'[i].pc = "idle") =>
                /\ expandedPaths' = expandedPaths \cup {fetches[i].cp}
                /\ loading' = FALSE
                /\ UNCHANGED <<error, currentPath, files, folders>>
                /\ DOMAIN treeCache \subseteq DOMAIN treeCache'
                /\ \A p \in DOMAIN treeCache' \ {ROOT} :
                    p \in DOMAIN treeCache /\ treeCache'[p] = treeCache[p]]_vars

\* the folder a is listed and expanded, and the root has never been cached: its
\* refresh failed
C22_Witness ==
    /\ currentPath = PA
    /\ PA \in DOMAIN treeCache
    /\ treeCache[PA] = folders
    /\ ROOT \notin DOMAIN treeCache
    /\ PA \in expandedPaths
    /\ error = NULL
    /\ ~loading
    /\ \A i \in 1..MaxFetch : fetches[i].pc = "idle"

\* C25: no step removes a path from the tree cache, and a step that writes the
\* cache replaces the entry of one path and leaves every other entry as it was.
C25_CacheOnlyGrows ==
    [][/\ DOMAIN treeCache \subseteq DOMAIN treeCache'
       /\ Cardinality({ p \in DOMAIN treeCache' :
                p \notin DOMAIN treeCache \/ treeCache'[p] # treeCache[p] }) <= 1]_vars

\* the cache has grown by the entry of a, and the entry of the root was replaced
C25_Witness ==
    /\ {ROOT, PA} \subseteq DOMAIN treeCache
    /\ treeCache[ROOT] # <<PA>>

\* every path the cache lists, and every path the tree renders
CachedNodes == Tree \cup UNION { SeqToSet(treeCache[p]) : p \in DOMAIN treeCache }

\* C26: the rendered tree is a projection of expandedPaths and treeCache: the
\* root is rendered; another node is rendered exactly when a rendered, expanded
\* parent lists it in its cache entry, so a collapsed node and an expanded node
\* without a cache entry show no children.
C26_TreeIsProjection ==
    /\ ROOT \in Tree
    /\ \A n \in CachedNodes \ {ROOT} :
            n \in Tree <=>
                \E p \in Tree : /\ p \in expandedPaths
                                /\ p \in DOMAIN treeCache
                                /\ n \in SeqToSet(treeCache[p])
    /\ Tree = Shown

\* a is rendered collapsed with a child in the cache, which is not rendered
C26_Witness ==
    /\ PA \in Tree
    /\ PA \notin expandedPaths
    /\ PA \in DOMAIN treeCache
    /\ PAB \in SeqToSet(treeCache[PA])
    /\ PAB \notin Tree

\* a toggle of the tree is waiting for its token or its listing
InFlight(i) == toggles[i].pc # "idle"

\* C27: toggleExpand(path) changes the membership of path in expandedPaths and
\* of no other path: the click on an expanded node removes it and starts no
\* request; the click on a collapsed, cached node adds it; the click on a
\* collapsed node that is not cached starts the request, and the step that ends
\* it adds the path after the response, when there is one, is in the cache.
C27_ToggleFlipsOnePath ==
    [][/\ \A path \in Paths :
            (last' # last /\ last' = Click("toggle", path)) =>
                IF path \in expandedPaths
                THEN expandedPaths' = expandedPaths \ {path} /\ toggles' = toggles
                ELSE IF path \in DOMAIN treeCache
                THEN expandedPaths' = expandedPaths \cup {path} /\ toggles' = toggles
                ELSE /\ expandedPaths' = expandedPaths
                     /\ \E i \in 1..MaxToggle : ~InFlight(i) /\ toggles'[i].path = path
                                                            /\ toggles'[i].pc # "idle"
       /\ \A i \in 1..MaxToggle :
            (InFlight(i) /\ toggles'[i].pc = "idle") =>
                /\ expandedPaths' = expandedPaths \cup {toggles[i].path}
                /\ last'.op = "toggleOk" => toggles[i].path \in DOMAIN treeCache']_vars

\* C28: after two clicks, when no toggle is outstanding and the listings of two
\* different folders a and b are in the cache, where only toggles put them, both
\* a and b are in expandedPaths: the two clicks were their expansions, one after
\* the other or both outstanding together, and both have completed.
C28_ConcurrentExpansions ==
    \A a \in Paths \ {ROOT} : \A b \in Paths \ {ROOT, a} :
        (/\ last.clicks = 2
         /\ \A i \in 1..MaxToggle : ~InFlight(i)
         /\ {a, b} \subseteq DOMAIN treeCache)
        => {a, b} \subseteq expandedPaths

\* C29: the step that ends a toggle removes no path from expandedPaths and no
\* entry from the tree cache: what other operations have added while the toggle
\* was waiting is still there.
C29_NoLostUpdate ==
    [][\A i \in 1..MaxToggle :
        (InFlight(i) /\ toggles'[i].pc = "idle") =>
            /\ expandedPaths \subseteq expandedPaths'
            /\ DOMAIN treeCache \subseteq DOMAIN treeCache']_vars

\* the messages the component has as literals
FixedMessages ==
    {MsgFetch, MsgUpload, MsgNavigatePath, MsgInit, MsgPermission, MsgSelect, MsgDownload,
     MsgDelete, MsgFolderEmpty, MsgCreate, MsgNavigateFolder, MsgNameEmpty, MsgRename,
     MsgDestEmpty, MsgMove, MsgDeleteFolder}

\* C24: error is null, one of the fixed messages or the error field of a
\* response; the error field is shown only by the step in which the request of
\* deleteFolder fails, and a failure of deleteFolder shows that field or
\* 'Failed to delete folder.', the latter when no response was received.
C24_FixedMessages ==
    /\ [](error \in {NULL, ServerErrorText} \cup FixedMessages)
    /\ [][(error' # error /\ error' \notin {NULL} \cup FixedMessages) =>
                /\ handler.kind = "deleteFolder"
                /\ handler.pc = "request"
                /\ handler'.pc = "idle"]_vars
    /\ [][(handler.kind = "deleteFolder" /\ handler'.pc = "idle"
                /\ last'.op \in {"tokenFailed", "requestFailed"}) =>
                /\ error' \in {ServerErrorText, MsgDeleteFolder}
                /\ handler.pc = "token" => error' = MsgDeleteFolder]_vars

\* the request of deleteFolder was answered with an error field, which is shown
C24_Witness ==
    /\ error = ServerErrorText
    /\ last.op = "requestFailed"
    /\ handler.pc = "idle"

\* no handler and no listing request is outstanding
AtRest ==
    /\ handler.pc = "idle"
    /\ \A i \in 1..MaxFetch : fetches[i].pc = "idle"

\* the step is the catch of a handler, of the primary GET of a listing or of
\* the token of a folder navigation
CaughtFailure ==
    last'.op \in {"tokenFailed", "requestFailed", "fetchFail", "navigateFolderTokenFail"}

\* the step ends the root refresh of listing i and the cache entry of the root
\* is not a listing of the server: the refresh has failed
RootRefreshFailed(i) ==
    /\ fetches[i].pc = "root"
    /\ fetches'[i].pc = "idle"
    /\ ~ \E r \in Listings(EMPTY) :
            ROOT \in DOMAIN treeCache' /\ treeCache'[ROOT] = r.folders

\* every failure but that of the root refresh sets a message and ends the
\* invocation it belongs to, and with nothing outstanding loading is false
FailuresContained ==
    /\ [][CaughtFailure => error' \in FixedMessages \cup {ServerErrorText}]_vars
    /\ [][last'.op \in {"tokenFailed", "requestFailed"} =>
                handler.pc # "idle" /\ handler'.pc = "idle" /\ ~loading']_vars
    /\ [][last'.op = "fetchFail" /\ fetches' # fetches =>
                \E i \in 1..MaxFetch : fetches[i].pc = "primary" /\ fetches'[i].pc = "idle"]_vars
    /\ [](AtRest => ~loading)

C30_RefreshTokenIsNewest ==
    [][\A i \in 1..MaxFetch :
        (fetches[i].pc = "idle" /\ fetches'[i].pc = "primary") =>
            Epoch(fetches'[i].token) >= Epoch(mount.token)]_vars

\* the chunk POSTs of the request log that have been answered: all those sent
\* but the one the handler awaits
ChunksSucceeded ==
    Cardinality({ k \in 1..Len(reqLog) : reqLog[k].kind = "chunk" })
        - (IF up.pc = "chunk" THEN 1 ELSE 0)

\* C31: while handleChunkedUpload runs the progress is shown with
\* 0 <= current <= total, total the least count of 50 MiB chunks that hold the
\* file, and current the number of chunk requests answered; committing is set
\* exactly when the commit request is the one awaited, with current = total.
C31_ProgressCounts ==
    up.pc \in {"chunk", "commit"} =>
        /\ uploadProgress.active
        /\ 0 <= uploadProgress.current
        /\ uploadProgress.current <= uploadProgress.total
        /\ uploadProgress.total * CHUNK_SIZE >= up.size
        /\ (uploadProgress.total - 1) * CHUNK_SIZE < up.size
        /\ uploadProgress.current = ChunksSucceeded
        /\ uploadProgress.committing => uploadProgress.current = uploadProgress.total
        /\ uploadProgress.committing <=> up.pc = "commit"
        /\ uploadProgress.committing <=> reqLog[Len(reqLog)].kind = "commit"

\* two chunks of three are answered and the third is awaited
C31_Witness ==
    /\ up.pc = "chunk"
    /\ uploadProgress.total = 3
    /\ uploadProgress.current = 2
    /\ ~uploadProgress.committing

\* the chunk requests of the running upload, in the order sent
ChunkRequests == SelectSeq(reqLog, LAMBDA q : q.kind = "chunk")

\* C32: the chunks sent are the ranges [i * 50 MiB, min((i + 1) * 50 MiB, size)):
\* the first starts at 0, each starts where the one before ends, none is empty
\* or longer than 50 MiB, all but the last of the file are 50 MiB long, and when
\* all are sent the last ends at the size of the file.
C32_ChunksPartition ==
    LET cs == ChunkRequests
        MiB50 == 50 * 1024 * 1024
    IN /\ \A k \in 1..Len(cs) :
            /\ cs[k].chunkIndex = k - 1
            /\ cs[k].start = IF k = 1 THEN 0 ELSE cs[k - 1].end
            /\ cs[k].start < cs[k].end
            /\ cs[k].end - cs[k].start <= MiB50
            /\ cs[k].end <= up.size
            /\ cs[k].end < up.size => cs[k].end - cs[k].start = MiB50
       /\ up.pc = "commit" => Len(cs) > 0 /\ cs[Len(cs)].end = up.size

\* the four chunks of a file of 150 MiB + 1 bytes are sent; the last is 1 byte
C32_Witness ==
    /\ up.pc = "commit"
    /\ Len(ChunkRequests) = 4
    /\ ChunkRequests[4].end - ChunkRequests[4].start = 1

\* no path occurs twice in the sequence
NoDuplicates(sq) == \A k \in 1..Len(sq) : \A m \in 1..Len(sq) : sq[k] = sq[m] => k = m

\* C33: the folder list and every entry of the tree cache hold each path once.
C33_NoDuplicateFolders ==
    /\ NoDuplicates(folders)
    /\ \A p \in DOMAIN treeCache : NoDuplicates(treeCache[p])

\* the folder d, which the root lists already, has been created once more and
\* the listing that follows is outstanding
C33_Witness ==
    /\ \E i \in 1..MaxFetch : fetches[i].pc = "primary" /\ fetches[i].src = "createFolder"
    /\ currentPath = ROOT
    /\ folders = <<PA, <<"d">>>>
    /\ treeCache[ROOT] = <<PA, <<"d">>>>
    /\ ~dialogs.showCreateFolder

\* a listing request of the component is outstanding
ListingInFlight == \E i \in 1..MaxFetch : fetches[i].pc # "idle"

\* C34 as the specification states it: in part_001, part_002 and FileManager.js
\* the resolved POST of a single-request upload starts the listing request, and
\* no timer is armed and no exists request is sent.
C34_VariantsSkipPolling ==
    /\ ~poll.armed /\ poll.sent = 0 /\ poll.inflight = 0
    /\ last.op = "uploaded" => ListingInFlight

\* C34, amended: FileManager.js starts the listing request when the POST
\* resolves and never polls; part_001 and part_002 arm the timer instead and
\* start the listing request only on an exists answer of true.
C34_OnlyFlatVariantSkipsPolling ==
    /\ up.variant = "FileManager.js" =>
         /\ ~poll.armed /\ poll.sent = 0 /\ poll.inflight = 0 /\ poll.refreshes = 0
         /\ last.op = "uploaded" => ListingInFlight
    /\ up.variant \in {"part_001", "part_002"} =>
         /\ last.op = "uploaded" => poll.armed /\ ~ListingInFlight
         /\ ListingInFlight => poll.refreshes > 0
         /\ poll.refreshes > 0 => ~poll.armed

\* part_002 has uploaded and polled, and is listing after the answer true
C34_Witness ==
    /\ up.variant = "part_002" /\ up.result = "ok"
    /\ poll.refreshes = 1 /\ ~poll.armed
    /\ ListingInFlight
    /\ last.op = "existsTrue"

\* C35: the polling loop of one upload starts at most one listing refresh.
C35_AtMostOneRefresh == poll.refreshes <= 1

\* C36: the listing refresh that ends an upload (after the polling, after the
\* commit) asks for the folder that is currentPath when the refresh is issued.
C36_RefreshListsViewedFolder ==
    [][\A i \in 1..MaxFetch :
          (/\ fetches[i].pc = "idle"
           /\ fetches'[i].pc = "primary"
           /\ fetches'[i].src \in {"poll", "upload"})
          => fetches'[i].folderPath = Query(FolderArg(currentPath))]_vars

\* C37: loading is true whenever a handler of the item operations is running
\* or a listing request, the follow-up refresh of an operation included, is
\* outstanding.
C37_LoadingWhileInFlight ==
    (handler.pc # "idle" \/ ListingInFlight) => loading

\* C38: the destinationPath of the POST of handleMoveFile neither starts nor
\* ends with a slash, whatever destination passed the validation.
C38_DestinationHasNoOuterSlash ==
    [][(handler.pc = "token" /\ handler'.pc = "request" /\ handler.kind = "move") =>
            /\ handler'.arg # EMPTY
            /\ handler'.arg[1] # "/"
            /\ handler'.arg[Len(handler'.arg)] # "/"]_vars

\* C39: the step in which the GET of a toggle fails leaves error and the tree
\* cache as they are and puts the path into expandedPaths; and every click that
\* expands a collapsed path that is not a key of the cache, such as the path of
\* a failed toggle after it has been collapsed, starts a toggle that sends the GET.
C39_FailedExpandIsRetried ==
    [][/\ \A i \in 1..MaxToggle :
            (toggles[i].pc = "get" /\ toggles'[i].pc = "idle" /\ last'.op = "toggleFail") =>
                /\ error' = error
                /\ treeCache' = treeCache
                /\ toggles[i].path \in expandedPaths'
       /\ (/\ last'.clicks = last.clicks + 1
           /\ last'.op = "toggle"
           /\ last'.path \notin expandedPaths
           /\ ~CacheHit(treeCache, last'.path)) =>
                \E i \in 1..MaxToggle :
                    /\ toggles[i].pc = "idle"
                    /\ toggles'[i].pc = "token"
                    /\ toggles'[i].path = last'.path]_vars

\* after the third click the GET for folder a has failed: a is expanded and
\* not cached, and no message is shown
C39_Witness ==
    /\ last.op = "toggleFail" /\ last.path = PA /\ last.clicks = 3
    /\ expandedPaths = {ROOT, PA}
    /\ DOMAIN treeCache = {ROOT}
    /\ error = NULL

====
